---- MODULE Spec2Model ----
(***************************************************************************)
(* A model of the adaptive difficulty-tracking engine                      *)
(* (services/adaptive_learning.py) and of the confidence-gated answer      *)
(* pipeline (services/rag_service.py).                                      *)
(*                                                                         *)
(* Numbers that the code holds as floats are held exactly: an accuracy     *)
(* correct/total is compared with a threshold by cross-multiplication, a   *)
(* distance is an integer number of hundredths, and learning_pace is the   *)
(* fraction 60*len/sum.  The confidence of an answer is the exact value    *)
(* together with the side on which the float that the code computes lies   *)
(* ("below", "exact", "above"): 1.0 - mean([0.4, 0.7, 1.0]) is computed as *)
(* 0.29999999999999993 and 1.0 - 0.7 as 0.30000000000000004.               *)
(* datetime.now() is a logical clock.                                      *)
(***************************************************************************)
EXTENDS Integers, Sequences, FiniteSets, TLC

VARIABLES
    students,       \* AdaptiveLearningSystem.students: user_id -> StudentProfile
    db,             \* the file db_file: absent, corrupt, or a JSON object
    clock,          \* datetime.now(), a logical clock
    ret,            \* how the last record_attempt ended: "returned" or "raised";
                    \* "loaded" when the ledger has just been loaded from db
    calls,          \* history: record_attempt calls made, per user
    log,            \* history: the attempts recorded, per user, oldest first
    reply,          \* the value the last read operation returned
    request,        \* the inputs of the last process_question
    context_chunks, \* the chunks its retrieval returned
    llm_prompt,     \* the prompt it handed to the text generator
    answer_result,  \* the result it returned
    questions_added,\* the document it added to questions_collection
    pq_ret,         \* how it ended: "idle", "returned" or "raised"; "searched"
                    \* after a search_relevant_content called on its own
    registry,       \* self.students as references: user_id -> profile object
    profiles,       \* the heap of StudentProfile objects
    topic_dicts,    \* the heap of per-topic dicts of difficulty buckets
    threads,        \* each request thread's position and locals
    thread_attempt, \* the attempt each request thread records
    text_len,       \* extract_and_chunk_text: len(text) of the normalised text
    start,          \* its local `start`
    text_chunks,    \* its list `chunks`: the range of text each chunk holds
    chunk_pc        \* its position: "idle", "loop" or "returned"

ledgerVars == <<students, db, clock, ret, calls, log, reply>>

ragVars ==
    <<request, context_chunks, llm_prompt, answer_result, questions_added,
      pq_ret>>

concVars == <<registry, profiles, topic_dicts, threads, thread_attempt>>

chunkVars == <<text_len, start, text_chunks, chunk_pc>>

(***************************************************************************)
(* Bounds of the model and the input sets                                  *)
(***************************************************************************)
MaxAttempts == 3
MaxTopicAttempts == 6
MaxSessionAttempts == 4
WarmUp == 18
MaxPaceAttempts == 4
MaxPersistAttempts == 3
MaxChunks == 2
MaxPrefAttempts == 3
DrillLen == 13
MaxWeakAttempts == 3
WeakDrillLen == 9
MaxReadAttempts == 2
MaxRestartAttempts == 3
MaxStartupAttempts == 2
MaxTextLen == 1500

Users == {"u1", "u2"}
Topics == {"Math", "Science"}
Difficulties == {"easy", "medium", "hard"}
CogLevels == {"recall", "application", "analysis"}

\* QuestionAttempt (question_id, timestamp and confidence are never read by
\* the ledger).
Attempt(t, d, c, ok, tm) ==
    [topic |-> t, difficulty |-> d, cognitive_level |-> c, correct |-> ok,
     time_taken |-> tm]

LedgerAttempts ==
    [topic : Topics, difficulty : Difficulties, cognitive_level : {"recall"},
     correct : BOOLEAN, time_taken : {30}]

TopicAttempts ==
    [topic : {"Math"}, difficulty : Difficulties, cognitive_level : {"recall"},
     correct : BOOLEAN, time_taken : {30}]

PaceAttempts ==
    [topic : {"Math"}, difficulty : {"easy"}, cognitive_level : {"recall"},
     correct : {TRUE}, time_taken : {0, 25, 50}]

PersistAttempts ==
    [topic : {"Math"}, difficulty : {"easy", "hard"},
     cognitive_level : {"recall"}, correct : BOOLEAN, time_taken : {30}]

SaveOutcomes == {"ok", "fail_before_write", "fail_during_write"}

(***************************************************************************)
(* Dictionaries: a dict is a function whose DOMAIN is its key set          *)
(***************************************************************************)
EmptyDict == [k \in {} |-> 0]

Put(dict, k, v) == (k :> v) @@ dict

HasAttr(obj, name) == name \in DOMAIN obj

(***************************************************************************)
(* StudentProfile                                                          *)
(***************************************************************************)
ZeroStats == [correct |-> 0, total |-> 0]

NewTopicStats == [d \in Difficulties |-> ZeroStats]

\* StudentProfile(...) as record_attempt constructs it: the dataclass fields
\* only; recent_times is an attribute added later.
NewProfile(user_id, now) ==
    [user_id |-> user_id,
     topic_performance |-> EmptyDict,
     cognitive_levels |-> EmptyDict,
     learning_pace |-> [num |-> 0, den |-> 1],
     preferred_difficulty |-> "medium",
     last_activity |-> now,
     total_questions |-> 0,
     correct_answers |-> 0]

DataclassFields ==
    {"user_id", "topic_performance", "cognitive_levels", "learning_pace",
     "preferred_difficulty", "last_activity", "total_questions",
     "correct_answers"}

RECURSIVE SumSeq(_)
SumSeq(s) == IF s = <<>> THEN 0 ELSE Head(s) + SumSeq(Tail(s))

\* s[-n:]
LastN(s, n) ==
    IF Len(s) <= n THEN s ELSE SubSeq(s, Len(s) - n + 1, Len(s))

\* s[:n], for n >= 0
FirstN(s, n) == IF Len(s) <= n THEN s ELSE SubSeq(s, 1, n)

RecentTimesLimit == 20

\* A faulty variant of update_learning_pace: the slice [:20] for [-20:].
update_learning_pace_keeps_oldest(profile, attempt) ==
    LET p1 == IF HasAttr(profile, "recent_times") THEN profile
              ELSE Put(profile, "recent_times", <<>>)
        appended == Append(p1.recent_times, attempt.time_taken)
        kept == IF Len(appended) > RecentTimesLimit
                THEN SubSeq(appended, 1, RecentTimesLimit) ELSE appended
        total == SumSeq(kept)
        pace == IF total > 0 THEN [num |-> 60 * Len(kept), den |-> total]
                ELSE [num |-> 0, den |-> 1]
    IN  [p1 EXCEPT !.recent_times = kept, !.learning_pace = pace]

\* _update_learning_pace
update_learning_pace(profile, attempt) ==
    LET p1 == IF HasAttr(profile, "recent_times") THEN profile
              ELSE Put(profile, "recent_times", <<>>)
        appended == Append(p1.recent_times, attempt.time_taken)
        kept == IF Len(appended) > RecentTimesLimit
                THEN LastN(appended, RecentTimesLimit) ELSE appended
        total == SumSeq(kept)
        \* avg_time = total / len; 60.0 / avg_time = 60 * len / total
        pace == IF total > 0 THEN [num |-> 60 * Len(kept), den |-> total]
                ELSE [num |-> 0, den |-> 1]
    IN  [p1 EXCEPT !.recent_times = kept, !.learning_pace = pace]

\* The sum, as a fraction <<num, den>>, of correct/total over the topics in ts.
RECURSIVE SumScores(_, _, _)
SumScores(tp, d, ts) ==
    IF ts = {} THEN <<0, 1>>
    ELSE LET t == CHOOSE x \in ts : TRUE
             rest == SumScores(tp, d, ts \ {t})
             s == tp[t][d]
         IN  <<rest[1] * s.total + s.correct * rest[2], rest[2] * s.total>>

\* A faulty variant of AvgScoreAtLeast: the sum divided by the number of all
\* topics of the profile, not of those attempted in the difficulty.
AvgScoreOverAllTopics(tp, d, num, den) ==
    LET ts == {t \in DOMAIN tp : tp[t][d].total > 0}
        sum == SumScores(tp, d, ts)
    IN  IF ts = {} THEN 0 >= num
        ELSE sum[1] * den >= num * sum[2] * Cardinality(DOMAIN tp)

\* avg_scores[d] >= num/den, where avg_scores[d] is the mean of correct/total
\* over the topics with total > 0 in difficulty d, and 0.0 when there is none.
AvgScoreAtLeast(tp, d, num, den) ==
    LET ts == {t \in DOMAIN tp : tp[t][d].total > 0}
        sum == SumScores(tp, d, ts)
    IN  IF ts = {} THEN 0 >= num
        ELSE sum[1] * den >= num * sum[2] * Cardinality(ts)

\* A faulty variant of update_preferred_difficulty: without a score at a
\* threshold the preference is left as it was.
update_preferred_difficulty_keeps(profile) ==
    LET tp == profile.topic_performance
        pd == IF AvgScoreAtLeast(tp, "hard", 7, 10) THEN "hard"
              ELSE IF AvgScoreAtLeast(tp, "medium", 6, 10) THEN "medium"
              ELSE profile.preferred_difficulty
    IN  [profile EXCEPT !.preferred_difficulty = pd]

\* _update_preferred_difficulty
update_preferred_difficulty(profile) ==
    LET tp == profile.topic_performance
        pd == IF AvgScoreAtLeast(tp, "hard", 7, 10) THEN "hard"
              ELSE IF AvgScoreAtLeast(tp, "medium", 6, 10) THEN "medium"
              ELSE "easy"
    IN  [profile EXCEPT !.preferred_difficulty = pd]

(***************************************************************************)
(* Persistence                                                             *)
(***************************************************************************)
\* datetime.isoformat and datetime.fromisoformat
IsoFormat(t) == <<"iso", t>>
FromIsoFormat(s) == s[2]

\* A faulty variant of ProfileToJson: the dataclass fields only, without
\* recent_times.
ProfileToJsonDataclassOnly(profile) ==
    [f \in DataclassFields |->
        IF f = "last_activity" THEN IsoFormat(profile[f]) ELSE profile[f]]

\* What _save_data writes for one profile: asdict() of the dataclass fields,
\* last_activity as text, and recent_times when the attribute is there and
\* not empty.
ProfileToJson(profile) ==
    LET base == [f \in DataclassFields |->
                    IF f = "last_activity" THEN IsoFormat(profile[f])
                    ELSE profile[f]]
    IN  IF HasAttr(profile, "recent_times") /\ profile.recent_times # <<>>
        THEN Put(base, "recent_times", profile.recent_times)
        ELSE base

AbsentFile == [state |-> "absent", data |-> EmptyDict]
CorruptFile == [state |-> "corrupt", data |-> EmptyDict]

\* A faulty variant of save_data: the failure is not caught.
save_data_propagates(studentMap, file, outcome) ==
    [db |-> CASE outcome = "ok" ->
                    [state |-> "valid",
                     data |-> [u \in DOMAIN studentMap |->
                                  ProfileToJson(studentMap[u])]]
              [] outcome = "fail_before_write" -> file
              [] OTHER -> CorruptFile,
     raised |-> outcome # "ok"]

\* _save_data: every failure is caught inside, so it never raises.  A failure
\* before the file is opened leaves the file as it was; a failure while
\* json.dump writes leaves a truncated file.
save_data(studentMap, file, outcome) ==
    [db |-> CASE outcome = "ok" ->
                    [state |-> "valid",
                     data |-> [u \in DOMAIN studentMap |->
                                  ProfileToJson(studentMap[u])]]
              [] outcome = "fail_before_write" -> file
              [] OTHER -> CorruptFile,
     raised |-> FALSE]

\* dict.get(key, default)
Get(dict, key, default) == IF key \in DOMAIN dict THEN dict[key] ELSE default

\* The StudentProfile _load_data rebuilds from one user's JSON object.
ProfileFromJson(user_id, data, now) ==
    LET d == IF "last_activity" \in DOMAIN data
             THEN [data EXCEPT !.last_activity = FromIsoFormat(@)]
             ELSE data
        profile == [user_id |-> Get(d, "user_id", user_id),
                    topic_performance |-> Get(d, "topic_performance", EmptyDict),
                    cognitive_levels |-> Get(d, "cognitive_levels", EmptyDict),
                    learning_pace |->
                        Get(d, "learning_pace", [num |-> 0, den |-> 1]),
                    preferred_difficulty |->
                        Get(d, "preferred_difficulty", "medium"),
                    last_activity |-> Get(d, "last_activity", now),
                    total_questions |-> Get(d, "total_questions", 0),
                    correct_answers |-> Get(d, "correct_answers", 0)]
    IN  IF "recent_times" \in DOMAIN d
        THEN Put(profile, "recent_times", d.recent_times)
        ELSE profile

\* A user's record in the file that is not a JSON object: rebuilding a
\* StudentProfile from it raises.
MalformedRecord == [not_an_object |-> TRUE]

\* A faulty variant of load_data: one record that fails to rebuild ends the
\* whole load.
load_data_all_or_nothing(file, now) ==
    IF file.state # "valid" THEN EmptyDict
    ELSE IF \E u \in DOMAIN file.data : file.data[u] = MalformedRecord
    THEN EmptyDict
    ELSE [u \in DOMAIN file.data |-> ProfileFromJson(u, file.data[u], now)]

\* _load_data: no file, or a file that does not parse, gives no profiles; a
\* record that fails to rebuild is skipped.
load_data(file, now) ==
    IF file.state # "valid" THEN EmptyDict
    ELSE [u \in {v \in DOMAIN file.data : file.data[v] # MalformedRecord} |->
             ProfileFromJson(u, file.data[u], now)]

(***************************************************************************)
(* record_attempt                                                          *)
(***************************************************************************)
\* A faulty variant of IncrStats: `total` counted inside the
\* `if attempt.correct` branch.
IncrStatsCorrectOnly(stats, correct) ==
    [correct |-> stats.correct + (IF correct THEN 1 ELSE 0),
     total |-> stats.total + (IF correct THEN 1 ELSE 0)]

IncrStats(stats, correct) ==
    [correct |-> stats.correct + (IF correct THEN 1 ELSE 0),
     total |-> stats.total + 1]

\* A faulty variant of BasicStats: total_questions counted inside the
\* `if attempt.correct` branch.
BasicStatsCountsOnlyCorrect(profile, attempt, now) ==
    [profile EXCEPT !.total_questions = @ + (IF attempt.correct THEN 1 ELSE 0),
                    !.correct_answers = @ + (IF attempt.correct THEN 1 ELSE 0),
                    !.last_activity = now]

\* Lines 158-162: total_questions, correct_answers and last_activity.
BasicStats(profile, attempt, now) ==
    [profile EXCEPT !.total_questions = @ + 1,
                    !.correct_answers = @ + (IF attempt.correct THEN 1 ELSE 0),
                    !.last_activity = now]

\* Lines 144-183: the profile of user_id after the counters are updated.
UpdateCounters(studentMap, user_id, attempt, now) ==
    LET p0 == IF user_id \in DOMAIN studentMap THEN studentMap[user_id]
              ELSE NewProfile(user_id, now)
        p1 == BasicStats(p0, attempt, now)
        tp1 == IF attempt.topic \in DOMAIN p1.topic_performance
               THEN p1.topic_performance
               ELSE Put(p1.topic_performance, attempt.topic, NewTopicStats)
        tp2 == [tp1 EXCEPT ![attempt.topic][attempt.difficulty] =
                               IncrStats(@, attempt.correct)]
        cl1 == IF attempt.cognitive_level \in DOMAIN p1.cognitive_levels
               THEN p1.cognitive_levels
               ELSE Put(p1.cognitive_levels, attempt.cognitive_level, ZeroStats)
        cl2 == [cl1 EXCEPT ![attempt.cognitive_level] =
                               IncrStats(@, attempt.correct)]
    IN  [p1 EXCEPT !.topic_performance = tp2, !.cognitive_levels = cl2]

\* A faulty variant of record_attempt: the time of the attempt is stamped on
\* every profile.
record_attempt_stamps_all(studentMap, file, user_id, attempt, now, outcome) ==
    LET p == update_preferred_difficulty(
                 update_learning_pace(
                     UpdateCounters(studentMap, user_id, attempt, now),
                     attempt))
        putMap == Put(studentMap, user_id, p)
        newMap == [u \in DOMAIN putMap |->
                      [putMap[u] EXCEPT !.last_activity = now]]
        saved == save_data(newMap, file, outcome)
    IN  [students |-> newMap, db |-> saved.db,
         ret |-> IF saved.raised THEN "raised" ELSE "returned"]

\* record_attempt: the new students map, the new file and whether it raised.
record_attempt(studentMap, file, user_id, attempt, now, outcome) ==
    LET p == update_preferred_difficulty(
                 update_learning_pace(
                     UpdateCounters(studentMap, user_id, attempt, now),
                     attempt))
        newMap == Put(studentMap, user_id, p)
        saved == save_data(newMap, file, outcome)
    IN  [students |-> newMap, db |-> saved.db,
         ret |-> IF saved.raised THEN "raised" ELSE "returned"]

(***************************************************************************)
(* Read operations                                                         *)
(***************************************************************************)
\* topic=None
NoTopic == ""

QueryTopics == Topics \cup {NoTopic}

MinTopicAttempts == 3

\* A faulty variant of TopicScoreAtLeast: `> 0` for `>= 3`.
TopicScoreAnyAttempts(topic_stats, difficulty, num, den) ==
    IF difficulty \in DOMAIN topic_stats
    THEN LET stats == topic_stats[difficulty]
         IN  IF stats.total > 0
             THEN stats.correct * den >= num * stats.total
             ELSE 0 >= num
    ELSE 0 >= num

\* scores[difficulty] >= num/den in get_recommended_difficulty: the score is
\* correct/total with at least MinTopicAttempts attempts and 0.0 otherwise;
\* scores.get(difficulty, 0) is 0 for a bucket the topic does not have.
TopicScoreAtLeast(topic_stats, difficulty, num, den) ==
    IF difficulty \in DOMAIN topic_stats
    THEN LET stats == topic_stats[difficulty]
         IN  IF stats.total >= MinTopicAttempts
             THEN stats.correct * den >= num * stats.total
             ELSE 0 >= num
    ELSE 0 >= num

\* A faulty variant of get_recommended_difficulty: the cold-start default
\* "medium" also for a topic the profile does not have.
get_recommended_difficulty_cold_topic(studentMap, user_id, topic) ==
    IF user_id \notin DOMAIN studentMap THEN "medium"
    ELSE LET profile == studentMap[user_id]
         IN  IF topic # NoTopic /\ topic \in DOMAIN profile.topic_performance
             THEN LET topic_stats == profile.topic_performance[topic]
                  IN  IF TopicScoreAtLeast(topic_stats, "hard", 7, 10)
                      THEN "hard"
                      ELSE IF TopicScoreAtLeast(topic_stats, "medium", 6, 10)
                      THEN "medium"
                      ELSE "easy"
             ELSE "medium"

get_recommended_difficulty(studentMap, user_id, topic) ==
    IF user_id \notin DOMAIN studentMap THEN "medium"
    ELSE LET profile == studentMap[user_id]
         IN  IF topic # NoTopic /\ topic \in DOMAIN profile.topic_performance
             THEN LET topic_stats == profile.topic_performance[topic]
                  IN  IF TopicScoreAtLeast(topic_stats, "hard", 7, 10)
                      THEN "hard"
                      ELSE IF TopicScoreAtLeast(topic_stats, "medium", 6, 10)
                      THEN "medium"
                      ELSE "easy"
             ELSE profile.preferred_difficulty

RecentWindow == 10

CountCorrect(attempts) ==
    Cardinality({i \in 1..Len(attempts) : attempts[i].correct})

\* getattr(profile, 'recent_attempts', [])[-10:]
RecentAttemptsOf(profile) ==
    IF HasAttr(profile, "recent_attempts")
    THEN LastN(profile.recent_attempts, RecentWindow)
    ELSE <<>>

generate_adaptive_questions(studentMap, user_id, topic, num_questions) ==
    LET base == get_recommended_difficulty(studentMap, user_id, topic)
        recent == IF user_id \in DOMAIN studentMap
                  THEN RecentAttemptsOf(studentMap[user_id])
                  ELSE <<>>
        n == Len(recent)
        c == CountCorrect(recent)
        \* recent_score > 0.8 and recent_score < 0.4
        rec == IF n = 0 THEN base
               ELSE IF 10 * c > 8 * n /\ base # "hard" THEN "hard"
               ELSE IF 10 * c < 4 * n /\ base # "easy" THEN "easy"
               ELSE base
    IN  [recommended_difficulty |-> rec,
         num_questions |-> num_questions,
         topic |-> topic,
         adaptive_reasoning |-> <<topic, rec>>]

\* The keys of profile.topic_performance in the order a dict iterates them:
\* the topics in the order of their first attempt.
FirstSeen(attempts) ==
    LET idx == {i \in 1..Len(attempts) :
                   \A j \in 1..(i - 1) : attempts[j].topic # attempts[i].topic}
    IN  [k \in 1..Cardinality(idx) |->
            attempts[CHOOSE i \in idx :
                        Cardinality({j \in idx : j < i}) = k - 1].topic]

\* The sums of get_weak_topics over the difficulty buckets of one topic.
TopicTotals(topic_stats) ==
    LET ds == DOMAIN topic_stats
        next[S \in SUBSET ds] ==
            IF S = {} THEN [correct |-> 0, total |-> 0]
            ELSE LET d == CHOOSE x \in S : TRUE
                 IN  [correct |-> next[S \ {d}].correct + topic_stats[d].correct,
                      total |-> next[S \ {d}].total + topic_stats[d].total]
    IN  next[ds]

\* A score correct/total as the fraction it is.
Score(correct, total) == [num |-> correct, den |-> total]

ScoreLess(a, b) == a.num * b.den < b.num * a.den

\* list.sort(key=lambda x: x[1]): ascending and stable.
RECURSIVE SortByScore(_)
SortByScore(pairs) ==
    IF pairs = <<>> THEN <<>>
    ELSE LET i == CHOOSE k \in 1..Len(pairs) :
                      /\ \A j \in 1..Len(pairs) :
                            ~ScoreLess(pairs[j][2], pairs[k][2])
                      /\ \A j \in 1..(k - 1) :
                            ScoreLess(pairs[k][2], pairs[j][2])
         IN  <<pairs[i]>> \o SortByScore(SubSeq(pairs, 1, i - 1) \o
                                         SubSeq(pairs, i + 1, Len(pairs)))

MinWeakAttempts == 5

\* The (topic, score) pairs of the topics in `order` whose attempts number at
\* least `least`.
RECURSIVE TopicScores(_, _, _)
TopicScores(tp, order, least) ==
    IF order = <<>> THEN <<>>
    ELSE LET t == Head(order)
             sums == TopicTotals(tp[t])
             rest == TopicScores(tp, Tail(order), least)
         IN  IF sums.total >= least
             THEN <<<<t, Score(sums.correct, sums.total)>>>> \o rest
             ELSE rest

\* A faulty variant of get_weak_topics: `> 0` for `>= 5`.
get_weak_topics_any(studentMap, user_id, limit, order) ==
    IF user_id \notin DOMAIN studentMap THEN <<>>
    ELSE FirstN(SortByScore(
                    TopicScores(studentMap[user_id].topic_performance,
                                order, 1)),
                limit)

\* get_weak_topics; `order` is the iteration order of topic_performance.
get_weak_topics(studentMap, user_id, limit, order) ==
    IF user_id \notin DOMAIN studentMap THEN <<>>
    ELSE FirstN(SortByScore(
                    TopicScores(studentMap[user_id].topic_performance,
                                order, MinWeakAttempts)),
                limit)

\* correct/total when total > 0 and 0.0 otherwise
ScoreOrZero(correct, total) ==
    IF total > 0 THEN Score(correct, total) ELSE Score(0, 1)

\* get_strength_analysis; `order` is the iteration order of
\* topic_performance.
get_strength_analysis(studentMap, user_id, order) ==
    IF user_id \notin DOMAIN studentMap
    THEN [overall_score |-> Score(0, 1),
          total_questions |-> 0,
          correct_answers |-> 0,
          learning_pace |-> [num |-> 0, den |-> 1],
          preferred_difficulty |-> "medium",
          weak_topics |-> <<>>,
          topic_performance |-> EmptyDict,
          cognitive_levels |-> [k \in {"easy", "medium", "hard"} |-> 0],
          recommendations |-> <<>>]
    ELSE LET profile == studentMap[user_id]
             tp == profile.topic_performance
             overall == ScoreOrZero(profile.correct_answers,
                                    profile.total_questions)
             first == IF 2 * overall.num < overall.den THEN "fundamentals"
                      ELSE IF 10 * overall.num < 7 * overall.den
                      THEN "application"
                      ELSE "challenge"
             weak == get_weak_topics(studentMap, user_id, 3, order)
         IN  [overall_score |-> overall,
              total_questions |-> profile.total_questions,
              correct_answers |-> profile.correct_answers,
              learning_pace |-> profile.learning_pace,
              preferred_difficulty |-> profile.preferred_difficulty,
              weak_topics |-> weak,
              topic_performance |->
                  [t \in DOMAIN tp |->
                      ScoreOrZero(TopicTotals(tp[t]).correct,
                                  TopicTotals(tp[t]).total)],
              cognitive_levels |->
                  [k \in {"easy", "medium", "hard"} |->
                      IF k \in DOMAIN profile.cognitive_levels
                      THEN profile.cognitive_levels[k].total ELSE 0],
              recommendations |->
                  IF weak # <<>>
                  THEN <<first,
                         <<"focus", [i \in 1..Len(weak) |-> weak[i][1]]>>>>
                  ELSE <<first>>]

\* round(x, 2) in hundredths for x = num/den computed on the side fp, and 0
\* for den = 0 (the branches `if avg_time > 0 else 0.0`).
Hundredths(num, den, fp) ==
    IF den = 0 THEN 0
    ELSE LET q == (100 * num) \div den
             r == (100 * num) % den
         IN  IF 2 * r > den THEN q + 1
             ELSE IF 2 * r < den THEN q
             ELSE IF fp = "above" THEN q + 1
             ELSE IF fp = "below" THEN q
             ELSE IF q % 2 = 0 THEN q ELSE q + 1

\* get_student_history; `order` is the iteration order of topic_performance
\* and fp the side of the floats it rounds.
get_student_history(studentMap, user_id, order, fp) ==
    IF user_id \notin DOMAIN studentMap
    THEN [total_questions |-> 0,
          correct_answers |-> 0,
          overall_score |-> Score(0, 1),
          topics_attempted |-> <<>>,
          difficulty_progression |-> EmptyDict,
          learning_pace_history |-> <<>>,
          recent_activity |-> <<>>]
    ELSE LET profile == studentMap[user_id]
             tp == profile.topic_performance
             rt == IF HasAttr(profile, "recent_times")
                   THEN profile.recent_times ELSE <<>>
             window(i) == SubSeq(rt, IF i > 5 THEN i - 4 ELSE 1, i)
         IN  [total_questions |-> profile.total_questions,
              correct_answers |-> profile.correct_answers,
              overall_score |-> ScoreOrZero(profile.correct_answers,
                                            profile.total_questions),
              topics_attempted |-> order,
              difficulty_progression |->
                  [t \in DOMAIN tp |->
                      [d \in {x \in DOMAIN tp[t] : tp[t][x].total > 0} |->
                          [total |-> tp[t][d].total,
                           correct |-> tp[t][d].correct,
                           score |-> Score(tp[t][d].correct,
                                           tp[t][d].total)]]],
              learning_pace_history |->
                  [i \in 1..Len(rt) |->
                      [attempt |-> i,
                       pace |-> Hundredths(60 * Len(window(i)),
                                           SumSeq(window(i)), fp),
                       time_taken |-> Hundredths(SumSeq(window(i)),
                                                 Len(window(i)), fp)]],
              recent_activity |->
                  IF rt # <<>>
                  THEN <<[type |-> "quiz_completion",
                          description |-> Len(rt),
                          time |-> <<"strftime", profile.last_activity>>,
                          score |-> <<profile.correct_answers,
                                      profile.total_questions>>]>>
                  ELSE <<>>,
              last_activity |-> IsoFormat(profile.last_activity)]

Reply(op, user_id, topic, value) ==
    [op |-> op, user_id |-> user_id, topic |-> topic, value |-> value]

NoReply == Reply("none", "", NoTopic, "")

UnchangedLedger == UNCHANGED <<students, db, clock, ret, calls, log>>

\* A faulty variant of GetRecommendedDifficulty: the lookup of the topic
\* leaves an entry behind, as a defaultdict does.
GetRecommendedDifficultyLeavesEntry(u, t) ==
    /\ reply' = Reply("get_recommended_difficulty", u, t,
                      get_recommended_difficulty(students, u, t))
    /\ students' =
           IF u \in DOMAIN students /\ t # NoTopic
                                    /\ t \notin DOMAIN students[u].topic_performance
           THEN [students EXCEPT ![u].topic_performance =
                                     Put(@, t, NewTopicStats)]
           ELSE students
    /\ UNCHANGED <<db, clock, ret, calls, log>>

GetRecommendedDifficulty(u, t) ==
    /\ reply' = Reply("get_recommended_difficulty", u, t,
                      get_recommended_difficulty(students, u, t))
    /\ UnchangedLedger

\* One call of get_weak_topics(u, limit); the reply keeps the limit asked for.
GetWeakTopics(u, limit) ==
    /\ reply' = [op |-> "get_weak_topics", user_id |-> u, topic |-> NoTopic,
                 value |-> get_weak_topics(students, u, limit,
                                           FirstSeen(log[u])),
                 limit |-> limit]
    /\ UnchangedLedger

\* A faulty variant of GetStrengthAnalysis: a profile is created for a user
\* who has none, as setdefault does.
GetStrengthAnalysisCreates(u) ==
    /\ reply' = Reply("get_strength_analysis", u, NoTopic,
                      get_strength_analysis(students, u, FirstSeen(log[u])))
    /\ students' = IF u \in DOMAIN students THEN students
                   ELSE Put(students, u, NewProfile(u, clock))
    /\ UNCHANGED <<db, clock, ret, calls, log>>

GetStrengthAnalysis(u) ==
    /\ reply' = Reply("get_strength_analysis", u, NoTopic,
                      get_strength_analysis(students, u, FirstSeen(log[u])))
    /\ UnchangedLedger

GetStudentHistory(u, fp) ==
    /\ reply' = Reply("get_student_history", u, NoTopic,
                      get_student_history(students, u, FirstSeen(log[u]), fp))
    /\ UnchangedLedger

GenerateAdaptiveQuestions(u, t, n) ==
    /\ reply' = Reply("generate_adaptive_questions", u, t,
                      generate_adaptive_questions(students, u, t, n))
    /\ UnchangedLedger

\* One call of record_attempt(u, a); keepLog says whether the history of
\* attempts is kept.
RecordAttempt(u, a, outcome, keepLog) ==
    LET r == record_attempt(students, db, u, a, clock + 1, outcome)
    IN  /\ students' = r.students
        /\ db' = r.db
        /\ ret' = r.ret
        /\ clock' = clock + 1
        /\ calls' = [calls EXCEPT ![u] = @ + 1]
        /\ log' = IF keepLog THEN [log EXCEPT ![u] = Append(@, a)] ELSE log
        /\ reply' = NoReply

(***************************************************************************)
(* Spec: the ledger, one call after another, two users and two topics      *)
(***************************************************************************)
\* AdaptiveLearningSystem.__init__ with no file on disk.
InitLedger ==
    /\ students = EmptyDict
    /\ db = AbsentFile
    /\ clock = 0
    /\ ret = "returned"
    /\ calls = [u \in Users |-> 0]
    /\ log = [u \in Users |-> <<>>]
    /\ reply = NoReply

RecordAny ==
    /\ clock < MaxAttempts
    /\ \E u \in Users, a \in LedgerAttempts :
          \E o \in {"ok", "fail_during_write"} : RecordAttempt(u, a, o, FALSE)

(***************************************************************************)
(* SpecPersist: the ledger and its file, every outcome of a save           *)
(***************************************************************************)
RecordPersist ==
    /\ clock < MaxPersistAttempts
    /\ \E u \in Users, a \in PersistAttempts, o \in SaveOutcomes :
          RecordAttempt(u, a, o, TRUE)

(***************************************************************************)
(* SpecTopic: one topic of one user, and the recommendation read back      *)
(***************************************************************************)
RecordTopic ==
    /\ clock < MaxTopicAttempts
    /\ \E a \in TopicAttempts : RecordAttempt("u1", a, "ok", FALSE)

AskDifficulty ==
    \E u \in Users, t \in QueryTopics : GetRecommendedDifficulty(u, t)

(***************************************************************************)
(* SpecSession: the session policy, with the history of attempts kept     *)
(***************************************************************************)
RecordSession ==
    /\ clock < MaxSessionAttempts
    /\ \E a \in TopicAttempts : RecordAttempt("u1", a, "ok", TRUE)

AskAdaptive ==
    \E u \in Users, t \in QueryTopics : GenerateAdaptiveQuestions(u, t, 5)

(***************************************************************************)
(* SpecPref: preferred_difficulty around its thresholds.  User u1 makes    *)
(* any attempts on an empty ledger, or a drill of DrillLen attempts in one *)
(* topic (hard 6 of 9, medium 2 of 4) and then any attempts.               *)
(***************************************************************************)
DrillAttempt(k) ==
    IF k <= 9 THEN Attempt("Math", "hard", "recall", k <= 6, 20)
    ELSE Attempt("Math", "medium", "recall", k <= 11, 20)

RecordDrill ==
    /\ clock < DrillLen
    /\ \A i \in 1..Len(log["u1"]) : log["u1"][i] = DrillAttempt(i)
    /\ RecordAttempt("u1", DrillAttempt(clock + 1), "ok", TRUE)

RecordPref ==
    /\ \/ clock < MaxPrefAttempts /\ \A i \in 1..Len(log["u1"]) :
                                          log["u1"][i] \in LedgerAttempts
       \/ clock >= DrillLen /\ clock < DrillLen + MaxPrefAttempts
    /\ \E a \in LedgerAttempts : RecordAttempt("u1", a, "ok", TRUE)

(***************************************************************************)
(* SpecWeak: the weakest topics.  User u1 makes a drill of WeakDrillLen    *)
(* attempts (Math 2 of 4, Science 3 of 5 over the three difficulties) and  *)
(* then any attempts; the weak topics are read at any time.                *)
(***************************************************************************)
WeakDrillAttempt(k) ==
    IF k <= 4 THEN Attempt("Math", "easy", "recall", k <= 2, 20)
    ELSE Attempt("Science",
                 IF k <= 6 THEN "easy" ELSE IF k <= 8 THEN "medium" ELSE "hard",
                 "recall", k <= 7, 20)

WeakAttempts ==
    [topic : Topics, difficulty : {"easy", "hard"},
     cognitive_level : {"recall"}, correct : BOOLEAN, time_taken : {30}]

WeakLimits == {0, 1, 3}

RecordWeakDrill ==
    /\ clock < WeakDrillLen
    /\ RecordAttempt("u1", WeakDrillAttempt(clock + 1), "ok", TRUE)

RecordWeak ==
    /\ clock >= WeakDrillLen
    /\ clock < WeakDrillLen + MaxWeakAttempts
    /\ \E a \in WeakAttempts : RecordAttempt("u1", a, "ok", TRUE)

AskWeak == \E u \in Users, limit \in WeakLimits : GetWeakTopics(u, limit)

(***************************************************************************)
(* SpecPace: recent_times around its limit.  User u1 makes any attempts on *)
(* an empty ledger, or WarmUp attempts whose times are 1, 2, ..., WarmUp   *)
(* and then any attempts.                                                  *)
(***************************************************************************)
WarmAttempt(k) == Attempt("Math", "easy", "recall", TRUE, k)

\* The log holds only the warm-up attempts made so far (none counts).
WarmingUp ==
    \A i \in 1..Len(log["u1"]) : log["u1"][i] = WarmAttempt(i)

\* One more attempt of a long first session: the k-th takes k seconds.
RecordWarm ==
    /\ clock < WarmUp
    /\ WarmingUp
    /\ RecordAttempt("u1", WarmAttempt(clock + 1), "ok", TRUE)

\* Any attempt, at the start of the ledger or after the long session.
RecordPace ==
    /\ \/ clock < MaxPaceAttempts /\ \A i \in 1..Len(log["u1"]) :
                                          log["u1"][i] \in PaceAttempts
       \/ clock >= WarmUp /\ clock < WarmUp + MaxPaceAttempts
    /\ \E a \in PaceAttempts : RecordAttempt("u1", a, "ok", TRUE)

(***************************************************************************)
(* The answer pipeline (rag_service.py)                                    *)
(***************************************************************************)
\* A chunk as the vector index returns it for the query: its metadata and its
\* distance to the query, in hundredths.
ChunkDistances == {0, 35, 40, 70, 100}

ChunkMetadatas == {EmptyDict, [pdf_filename |-> "a.pdf"],
                   [pdf_filename |-> "b.pdf"]}

Chunks == [metadata : ChunkMetadatas, distance : ChunkDistances]

\* The ranking the index gives for a query: ascending distance.
Rankings ==
    {r \in UNION {[1..n -> Chunks] : n \in 0..MaxChunks} :
        \A i \in 1..(Len(r) - 1) : r[i].distance <= r[i + 1].distance}

RetrievalOutcomes == {"ok", "no_model", "no_embedding", "query_raises"}

\* What a call of the text generator does: it returns a text, which becomes
\* the answer of the result, or it raises.
LlmOutcomes == {"text", "raises"}

\* The side of the exact confidence on which the computed float lies.
FloatSides == {"below", "exact", "above"}

NoUser == ""

TopK == 5

\* A faulty variant of search_relevant_content: a missing embedding does not
\* end the search.
search_relevant_content_unguarded(ranking, top_k, retrieval) ==
    IF retrieval = "no_model" THEN <<>>
    ELSE IF Len(ranking) = 0 THEN <<>>
    ELSE IF retrieval = "query_raises" THEN <<>>
    ELSE FirstN(ranking, top_k)

\* search_relevant_content on the collection whose ranking for the query is
\* `ranking`: every failure is caught and gives no chunks.
search_relevant_content(ranking, top_k, retrieval) ==
    IF retrieval = "no_model" THEN <<>>
    ELSE IF Len(ranking) = 0 THEN <<>>
    ELSE IF retrieval = "no_embedding" THEN <<>>
    ELSE IF retrieval = "query_raises" THEN <<>>
    ELSE FirstN(ranking, top_k)

\* self.subjects, and the collections the model holds: unified_collection and
\* two of subject_collections.
Subjects ==
    {"mathematics", "science", "history", "geography", "english", "hindi"}

UnifiedCollection == <<"unified_knowledge">>

SubjectCollection(subject) == <<"subject", subject>>

Collections ==
    {UnifiedCollection, SubjectCollection("science"),
     SubjectCollection("mathematics")}

NoSubject == ""

\* The subjects asked for: none, two known ones (one of them capitalised, one
\* with an empty collection in most indexes) and one that is not known.
SearchSubjects == {NoSubject, "science", "Science", "mathematics", "physics"}

\* str.lower() on the subjects asked for
Lower(s) == IF s = "Science" THEN "science" ELSE s

\* A faulty variant of select_collection: the unified knowledge base whatever
\* the subject.
select_collection_unified(subject) == UnifiedCollection

\* Lines 201-205: the collection search_relevant_content queries.
select_collection(subject) ==
    IF subject # NoSubject /\ Lower(subject) \in Subjects
    THEN SubjectCollection(Lower(subject))
    ELSE UnifiedCollection

\* search_relevant_content(query, top_k, subject=subject), where indexes gives
\* for every collection its ranking for the query.
search_in_subject(indexes, subject, top_k, retrieval) ==
    search_relevant_content(indexes[select_collection(subject)], top_k,
                            retrieval)

\* The prompt handed to llm_service.generate_answer: its kind and the number
\* of chunk contents in it.
Prompt(kind, n) == [kind |-> kind, chunks |-> n]

NoPrompt == Prompt("none", 0)

\* A faulty variant of ErrorResult: the general-knowledge figures left in.
ErrorResultKeepsFigures(message) ==
    [answer |-> message, confidence |-> 70, sources |-> {"General Knowledge"},
     answer_type |-> "error"]

ErrorResult(message) ==
    [answer |-> message, confidence |-> 0, sources |-> {},
     answer_type |-> "error"]

\* A faulty variant of generate_general_knowledge_answer: the floor 0.1 of
\* the curriculum branch reported for the flat 0.7.
generate_general_knowledge_answer_floor(chunks, llm) ==
    LET prompt == IF chunks # <<>>
                  THEN Prompt("general_with_hints", Len(FirstN(chunks, 2)))
                  ELSE Prompt("general", 0)
    IN  IF llm = "raises"
        THEN [result |-> ErrorResult("trouble generating an answer"),
              prompt |-> prompt]
        ELSE [result |->
                 [answer |-> llm,
                  confidence |-> 10,
                  sources |-> {"General Knowledge"},
                  context_chunks |-> IF chunks # <<>> THEN Len(chunks) ELSE 0,
                  answer_type |-> "general_knowledge"],
              prompt |-> prompt]

\* A faulty variant of generate_general_knowledge_answer: the count of context
\* chunks is 0 whether or not chunks were retrieved.
generate_general_knowledge_answer_no_count(chunks, llm) ==
    LET prompt == IF chunks # <<>>
                  THEN Prompt("general_with_hints", Len(FirstN(chunks, 2)))
                  ELSE Prompt("general", 0)
    IN  IF llm = "raises"
        THEN [result |-> ErrorResult("trouble generating an answer"),
              prompt |-> prompt]
        ELSE [result |->
                 [answer |-> llm,
                  confidence |-> 70,
                  sources |-> {"General Knowledge"},
                  context_chunks |-> 0,
                  answer_type |-> "general_knowledge"],
              prompt |-> prompt]

\* _generate_general_knowledge_answer; confidence is in hundredths.
generate_general_knowledge_answer(chunks, llm) ==
    LET prompt == IF chunks # <<>>
                  THEN Prompt("general_with_hints",
                              Len(FirstN(chunks, 2)))
                  ELSE Prompt("general", 0)
    IN  IF llm = "raises"
        THEN [result |-> ErrorResult("trouble generating an answer"),
              prompt |-> prompt]
        ELSE [result |->
                 [answer |-> llm,
                  confidence |-> 70,
                  sources |-> {"General Knowledge"},
                  context_chunks |->
                      IF chunks # <<>> THEN Len(chunks) ELSE 0,
                  answer_type |-> "general_knowledge"],
              prompt |-> prompt]

\* chunk['metadata'].get('pdf_filename', 'Unknown')
SourceOf(chunk) ==
    IF "pdf_filename" \in DOMAIN chunk.metadata
    THEN chunk.metadata.pdf_filename ELSE "Unknown"

RECURSIVE SumDistances(_)
SumDistances(chunks) ==
    IF chunks = <<>> THEN 0
    ELSE Head(chunks).distance + SumDistances(Tail(chunks))

Max(a, b) == IF a >= b THEN a ELSE b

\* max(0.1, 1.0 - avg_distance) times 100 * n, for n chunks.
ConfidenceTimesN(chunks) ==
    Max(10 * Len(chunks), 100 * Len(chunks) - SumDistances(chunks))

\* round(confidence, 2) in hundredths, for confidence = c / (100 * n) computed
\* on the side fp.  On a decimal tie the computed float decides, and a float
\* that is the tie exactly goes to the even hundredth.
Round2(c, n, fp) ==
    LET q == c \div n
        r == c % n
    IN  IF 2 * r > n THEN q + 1
        ELSE IF 2 * r < n THEN q
        ELSE IF fp = "above" THEN q + 1
        ELSE IF fp = "below" THEN q
        ELSE IF q % 2 = 0 THEN q ELSE q + 1

MinConfidence == 30

\* Faulty variants of LowConfidence: `<=` for `<`, and a threshold at the
\* floor 0.1, which no confidence is below.
LowConfidenceInclusive(c, n, fp) ==
    \/ c < MinConfidence * n
    \/ c = MinConfidence * n /\ fp # "above"

LowConfidenceAtFloor(c, n, fp) == c < 10 * n

\* confidence < 0.3, for confidence = c / (100 * n) computed on the side fp
LowConfidence(c, n, fp) ==
    \/ c < MinConfidence * n
    \/ c = MinConfidence * n /\ fp = "below"

\* generate_answer_with_context
generate_answer_with_context(chunks, llm, fp) ==
    IF chunks = <<>>
    THEN generate_general_knowledge_answer(<<>>, llm)
    ELSE LET n == Len(chunks)
             sources == {SourceOf(chunks[i]) : i \in 1..n}
             c == ConfidenceTimesN(chunks)
         IN  IF LowConfidence(c, n, fp)
             THEN generate_general_knowledge_answer(chunks, llm)
             ELSE IF llm = "raises"
             THEN [result |-> ErrorResult("error while generating the answer"),
                   prompt |-> Prompt("curriculum", n)]
             ELSE [result |->
                      [answer |-> llm,
                       confidence |-> Round2(c, n, fp),
                       sources |-> sources,
                       context_chunks |-> n,
                       answer_type |-> "curriculum_based"],
                   prompt |-> Prompt("curriculum", n)]

\* json.dumps
JsonDumps(v) == <<"json", v>>

NoAdd == [user_id |-> NoUser, answer |-> JsonDumps(EmptyDict)]

\* A faulty variant of save_question_answer: the failure of the store is not
\* caught.
save_question_answer_propagates(answer, user_id, store) ==
    IF store = "ok"
    THEN [added |-> [user_id |-> user_id, answer |-> JsonDumps(answer)],
          ok |-> TRUE, raised |-> FALSE]
    ELSE [added |-> NoAdd, ok |-> FALSE, raised |-> TRUE]

\* save_question_answer: the document added to questions_collection, if any;
\* a failure of the store is caught and gives False.
save_question_answer(answer, user_id, store) ==
    IF store = "ok"
    THEN [added |-> [user_id |-> user_id, answer |-> JsonDumps(answer)],
          ok |-> TRUE, raised |-> FALSE]
    ELSE [added |-> NoAdd, ok |-> FALSE, raised |-> FALSE]

StoreOutcomes == {"ok", "raises"}

\* process_question; whatever is raised inside is caught by its own
\* try/except and gives the error result.
process_question(ranking, retrieval, llm, user_id, store, fp) ==
    LET chunks == search_relevant_content(ranking, TopK, retrieval)
        gen == generate_answer_with_context(chunks, llm, fp)
        saved == IF user_id # NoUser
                 THEN save_question_answer(gen.result, user_id, store)
                 ELSE [added |-> NoAdd, ok |-> FALSE, raised |-> FALSE]
        result == IF "answer_type" \in DOMAIN gen.result THEN gen.result
                  ELSE Put(gen.result, "answer_type", "unknown")
    IN  [context_chunks |-> chunks, prompt |-> gen.prompt,
         answer_result |-> IF saved.raised
                           THEN ErrorResult("error while processing")
                           ELSE result,
         added |-> saved.added, ret |-> "returned"]

NoRequest ==
    [ranking |-> <<>>, retrieval |-> "ok", llm |-> "text", user_id |-> NoUser,
     store |-> "ok", fp |-> "exact"]

NoAnswer == EmptyDict

InitRag ==
    /\ request = NoRequest
    /\ context_chunks = <<>>
    /\ llm_prompt = NoPrompt
    /\ answer_result = NoAnswer
    /\ questions_added = NoAdd
    /\ pq_ret = "idle"

\* The caller has taken the result; the request's values are dropped.
EndRequest ==
    /\ pq_ret # "idle"
    /\ request' = NoRequest
    /\ context_chunks' = <<>>
    /\ llm_prompt' = NoPrompt
    /\ answer_result' = NoAnswer
    /\ questions_added' = NoAdd
    /\ pq_ret' = "idle"

ProcessQuestion ==
    /\ pq_ret = "idle"
    /\ \E ranking \in Rankings, retrieval \in RetrievalOutcomes,
       llm \in LlmOutcomes, user_id \in {NoUser, "u1"},
       store \in StoreOutcomes, fp \in FloatSides :
        LET r == process_question(ranking, retrieval, llm, user_id, store, fp)
        IN  /\ request' = [ranking |-> ranking, retrieval |-> retrieval,
                           llm |-> llm, user_id |-> user_id, store |-> store,
                           fp |-> fp]
            /\ context_chunks' = r.context_chunks
            /\ llm_prompt' = r.prompt
            /\ answer_result' = r.answer_result
            /\ questions_added' = r.added
            /\ pq_ret' = r.ret

(***************************************************************************)
(* SpecSearch: search_relevant_content over the collections                *)
(***************************************************************************)
\* The rankings a collection gives: its chunks all come from its own
\* document.
RankingsFrom(doc) ==
    {r \in Rankings : \A i \in 1..Len(r) : r[i].metadata = [pdf_filename |-> doc]}

\* What the collections hold for the query: the unified knowledge base and
\* the science collection hold chunks of different documents, the
\* mathematics collection is empty.
Indexes ==
    {[c \in Collections |->
         IF c = UnifiedCollection THEN u
         ELSE IF c = SubjectCollection("science") THEN s
         ELSE <<>>] : u \in RankingsFrom("a.pdf"), s \in RankingsFrom("b.pdf")}

SearchLimits == {1, 2, 5}

SearchRelevantContent ==
    /\ pq_ret = "idle"
    /\ \E indexes \in Indexes, subject \in SearchSubjects,
          top_k \in SearchLimits, retrieval \in RetrievalOutcomes :
        /\ request' = [indexes |-> indexes, subject |-> subject,
                       top_k |-> top_k, retrieval |-> retrieval]
        /\ context_chunks' =
               search_in_subject(indexes, subject, top_k, retrieval)
        /\ pq_ret' = "searched"
    /\ UNCHANGED <<llm_prompt, answer_result, questions_added>>

(***************************************************************************)
(* SpecLlm: process_question with LLMService as its text generator         *)
(***************************************************************************)
ApologyFailed == "I'm sorry, I couldn't generate an answer at the moment."

ApologyOffline == "I'm sorry, I'm currently in offline mode"

\* LLMService after __init__: a model only with a key and a connection.
ServiceStates ==
    {s \in [model : BOOLEAN, is_online : BOOLEAN] : s.model => s.is_online}

\* A faulty variant of generate_answer: the failure of the model's call is
\* not caught.
generate_answer_propagates(service, call) ==
    IF service.model /\ service.is_online
    THEN IF call = "raises" THEN "raises" ELSE call
    ELSE ApologyOffline

\* LLMService.generate_answer, where call is what model.generate_content
\* does: what is returned to the caller.
generate_answer(service, call) ==
    IF service.model /\ service.is_online
    THEN IF call = "raises" THEN ApologyFailed ELSE call
    ELSE ApologyOffline

ProcessQuestionWithService ==
    /\ pq_ret = "idle"
    /\ \E ranking \in Rankings, retrieval \in RetrievalOutcomes,
          service \in ServiceStates, call \in LlmOutcomes,
          user_id \in {NoUser, "u1"}, store \in StoreOutcomes,
          fp \in FloatSides :
        LET llm == generate_answer(service, call)
            r == process_question(ranking, retrieval, llm, user_id, store, fp)
        IN  /\ request' = [ranking |-> ranking, retrieval |-> retrieval,
                           llm |-> llm, user_id |-> user_id, store |-> store,
                           fp |-> fp, service |-> service, call |-> call]
            /\ context_chunks' = r.context_chunks
            /\ llm_prompt' = r.prompt
            /\ answer_result' = r.answer_result
            /\ questions_added' = r.added
            /\ pq_ret' = r.ret

(***************************************************************************)
(* SpecChunk: extract_and_chunk_text, one iteration of its loop at a time  *)
(***************************************************************************)
\* chunk_size=500, overlap=50, and the 100 characters before the end of a
\* chunk in which a sentence end is looked for.
ChunkSize == 500
Overlap == 50
BoundaryWindow == 100

\* len(text) after normalisation.  The normalised text has no white space at
\* its ends and none but single spaces inside; 0 is the text with nothing but
\* white space in it.
TextLengths == {0, 1, 450, 500, 501, 502, 952, MaxTextLen}

IdleChunker ==
    /\ text_len = 0
    /\ start = 0
    /\ text_chunks = <<>>
    /\ chunk_pc = "idle"

\* A faulty variant of BoundaryFloor: the search for a sentence end goes
\* down to the start of the chunk.
BoundaryFloorAtStart(s) == s

\* max(start + chunk_size - 100, start): where the search for a sentence end
\* stops (exclusive).
BoundaryFloor(s) == Max(s + ChunkSize - BoundaryWindow, s)

\* The positions i of range(end, floor, -1) at which the text may have its
\* nearest sentence end: the lowest, the highest and one between.
BoundaryCandidates(s) ==
    {i \in {BoundaryFloor(s) + 1, s + ChunkSize - Overlap, s + ChunkSize} :
        i > BoundaryFloor(s) /\ i <= s + ChunkSize}

NoBoundary == -1

\* Python's text[a:b] for 0 <= a: the range of text it holds.
Slice(a, b, len) ==
    LET last == IF b > len THEN len ELSE b
    IN  [first |-> a, last |-> IF last < a THEN a ELSE last]

\* str.strip() on a slice of the normalised text, of which lead characters
\* at its beginning and trail characters at its end are spaces.
Strip(slice, lead, trail) ==
    [first |-> slice.first + lead, last |-> slice.last - trail]

\* The call: `if not text: return []`, the normalisation, and the loop
\* entered for a text that is not empty.
ExtractAndChunkText ==
    /\ chunk_pc = "idle"
    /\ \E len \in TextLengths :
        /\ text_len' = len
        /\ start' = 0
        /\ text_chunks' = <<>>
        /\ chunk_pc' = IF 0 < len THEN "loop" ELSE "returned"

\* One iteration of `while start < len(text)`.  The text is given by what the
\* iteration reads of it: whether and where the search finds a sentence end,
\* and whether the slice begins or ends with a space.
ChunkStep ==
    /\ chunk_pc = "loop"
    /\ \E boundary \in
            IF start + ChunkSize < text_len
            THEN BoundaryCandidates(start) \cup {NoBoundary}
            ELSE {NoBoundary},
          lead \in 0..1, trail \in 0..1 :
        LET end == IF boundary # NoBoundary THEN boundary + 1
                   ELSE start + ChunkSize
            slice == Slice(start, end, text_len)
            chunk == Strip(slice, lead, trail)
        IN  \* text[0] and text[-1] are no spaces, nor is a sentence end
            /\ lead = 1 => (slice.first > 0 /\ slice.first < text_len - 1)
            /\ trail = 1 => (slice.last < text_len /\ boundary = NoBoundary
                             /\ slice.last - 1 > slice.first)
            /\ text_chunks' = IF chunk.first < chunk.last
                              THEN Append(text_chunks, chunk)
                              ELSE text_chunks
            /\ start' = end - Overlap
            /\ chunk_pc' = IF end - Overlap >= text_len THEN "returned"
                           ELSE "loop"
    /\ UNCHANGED text_len

\* The caller has taken the chunks.
EndChunking ==
    /\ chunk_pc = "returned"
    /\ text_len' = 0
    /\ start' = 0
    /\ text_chunks' = <<>>
    /\ chunk_pc' = "idle"

(***************************************************************************)
(* record_attempt called from several request threads at once (the server  *)
(* of app.py serves each request on its own thread; the ledger has no      *)
(* lock).  Objects are held by reference: a profile and the dict of a      *)
(* topic are heap objects, named after the thread that created them.       *)
(***************************************************************************)
Threads == {"t1", "t2"}

ConcUser == "u1"

ConcAttempts ==
    [topic : {"Math"}, difficulty : {"easy", "hard"},
     cognitive_level : {"recall"}, correct : BOOLEAN, time_taken : {30}]

NoRef == "none"

Frame(pc, profile, stats, tmp) ==
    [pc |-> pc, profile |-> profile, stats |-> stats, tmp |-> tmp]

\* The profile object pid with its topic dicts read through their references.
View(pid) ==
    [profiles[pid] EXCEPT
        !.topic_performance = [t \in DOMAIN @ |-> topic_dicts[@[t]]]]

\* self.students with every profile read through its reference.
StudentsView == [u \in DOMAIN registry |-> View(registry[u])]

\* No request thread is running.
IdleConc ==
    /\ registry = EmptyDict
    /\ profiles = EmptyDict
    /\ topic_dicts = EmptyDict
    /\ threads = [t \in Threads |-> Frame("done", NoRef, NoRef, 0)]
    /\ thread_attempt =
           [t \in Threads |-> Attempt("Math", "easy", "recall", TRUE, 30)]

\* Every thread has just been handed its request, on an empty ledger.
StartedConc ==
    /\ registry = EmptyDict
    /\ profiles = EmptyDict
    /\ topic_dicts = EmptyDict
    /\ threads = [t \in Threads |-> Frame("check", NoRef, NoRef, 0)]
    /\ thread_attempt \in [Threads -> ConcAttempts]

Goto(t, pc) == threads' = [threads EXCEPT ![t].pc = pc]

UnchangedHeap == UNCHANGED <<registry, profiles, topic_dicts, thread_attempt>>

\* line 144: if user_id not in self.students
CheckUser(t) ==
    /\ threads[t].pc = "check"
    /\ Goto(t, IF ConcUser \notin DOMAIN registry THEN "create" ELSE "load")
    /\ UnchangedHeap
    /\ UNCHANGED <<db, clock>>

\* lines 145-154: self.students[user_id] = StudentProfile(...)
CreateProfile(t) ==
    /\ threads[t].pc = "create"
    /\ profiles' = Put(profiles, t, NewProfile(ConcUser, clock + 1))
    /\ registry' = Put(registry, ConcUser, t)
    /\ clock' = clock + 1
    /\ Goto(t, "load")
    /\ UNCHANGED <<topic_dicts, thread_attempt, db>>

\* line 156: profile = self.students[user_id]
LoadProfile(t) ==
    /\ threads[t].pc = "load"
    /\ threads' = [threads EXCEPT ![t].pc = "read_total",
                                  ![t].profile = registry[ConcUser]]
    /\ UnchangedHeap
    /\ UNCHANGED <<db, clock>>

\* line 159, the read of profile.total_questions += 1
ReadTotal(t) ==
    /\ threads[t].pc = "read_total"
    /\ threads' = [threads EXCEPT
                      ![t].pc = "write_total",
                      ![t].tmp = profiles[threads[t].profile].total_questions]
    /\ UnchangedHeap
    /\ UNCHANGED <<db, clock>>

\* line 159, the write of profile.total_questions += 1
WriteTotal(t) ==
    /\ threads[t].pc = "write_total"
    /\ profiles' = [profiles EXCEPT
                       ![threads[t].profile].total_questions =
                           threads[t].tmp + 1]
    /\ Goto(t, IF thread_attempt[t].correct THEN "read_correct" ELSE "stamp")
    /\ UNCHANGED <<registry, topic_dicts, thread_attempt, db, clock>>

\* line 161, the read of profile.correct_answers += 1
ReadCorrect(t) ==
    /\ threads[t].pc = "read_correct"
    /\ threads' = [threads EXCEPT
                      ![t].pc = "write_correct",
                      ![t].tmp = profiles[threads[t].profile].correct_answers]
    /\ UnchangedHeap
    /\ UNCHANGED <<db, clock>>

\* line 161, the write of profile.correct_answers += 1
WriteCorrect(t) ==
    /\ threads[t].pc = "write_correct"
    /\ profiles' = [profiles EXCEPT
                       ![threads[t].profile].correct_answers =
                           threads[t].tmp + 1]
    /\ Goto(t, "stamp")
    /\ UNCHANGED <<registry, topic_dicts, thread_attempt, db, clock>>

\* line 162: profile.last_activity = datetime.now()
StampActivity(t) ==
    /\ threads[t].pc = "stamp"
    /\ profiles' = [profiles EXCEPT
                       ![threads[t].profile].last_activity = clock + 1]
    /\ clock' = clock + 1
    /\ Goto(t, "check_topic")
    /\ UNCHANGED <<registry, topic_dicts, thread_attempt, db>>

\* line 165: if attempt.topic not in profile.topic_performance
CheckTopic(t) ==
    /\ threads[t].pc = "check_topic"
    /\ Goto(t, IF thread_attempt[t].topic \notin
                     DOMAIN profiles[threads[t].profile].topic_performance
               THEN "init_topic" ELSE "get_stats")
    /\ UnchangedHeap
    /\ UNCHANGED <<db, clock>>

\* lines 166-170: profile.topic_performance[attempt.topic] = {...}
InitTopic(t) ==
    /\ threads[t].pc = "init_topic"
    /\ topic_dicts' = Put(topic_dicts, t, NewTopicStats)
    /\ profiles' = [profiles EXCEPT
                       ![threads[t].profile].topic_performance =
                           Put(@, thread_attempt[t].topic, t)]
    /\ Goto(t, "get_stats")
    /\ UNCHANGED <<registry, thread_attempt, db, clock>>

\* line 172: topic_stats = profile.topic_performance[topic][difficulty]
GetStats(t) ==
    /\ threads[t].pc = "get_stats"
    /\ threads' = [threads EXCEPT
                      ![t].pc = "read_tally",
                      ![t].stats =
                          profiles[threads[t].profile].topic_performance[
                              thread_attempt[t].topic]]
    /\ UnchangedHeap
    /\ UNCHANGED <<db, clock>>

\* line 173, the read of topic_stats['total'] += 1
ReadTally(t) ==
    /\ threads[t].pc = "read_tally"
    /\ threads' = [threads EXCEPT
                      ![t].pc = "write_tally",
                      ![t].tmp = topic_dicts[threads[t].stats][
                                     thread_attempt[t].difficulty].total]
    /\ UnchangedHeap
    /\ UNCHANGED <<db, clock>>

\* line 173, the write of topic_stats['total'] += 1
WriteTally(t) ==
    /\ threads[t].pc = "write_tally"
    /\ topic_dicts' = [topic_dicts EXCEPT
                          ![threads[t].stats][
                              thread_attempt[t].difficulty].total =
                                  threads[t].tmp + 1]
    /\ Goto(t, IF thread_attempt[t].correct THEN "read_tally_correct"
               ELSE "tail")
    /\ UNCHANGED <<registry, profiles, thread_attempt, db, clock>>

\* line 175, the read of topic_stats['correct'] += 1
ReadTallyCorrect(t) ==
    /\ threads[t].pc = "read_tally_correct"
    /\ threads' = [threads EXCEPT
                      ![t].pc = "write_tally_correct",
                      ![t].tmp = topic_dicts[threads[t].stats][
                                     thread_attempt[t].difficulty].correct]
    /\ UnchangedHeap
    /\ UNCHANGED <<db, clock>>

\* line 175, the write of topic_stats['correct'] += 1
WriteTallyCorrect(t) ==
    /\ threads[t].pc = "write_tally_correct"
    /\ topic_dicts' = [topic_dicts EXCEPT
                          ![threads[t].stats][
                              thread_attempt[t].difficulty].correct =
                                  threads[t].tmp + 1]
    /\ Goto(t, "tail")
    /\ UNCHANGED <<registry, profiles, thread_attempt, db, clock>>

\* lines 177-191 in one step: the cognitive-level tally, the pace, the
\* preferred difficulty and the save.
FinishAttempt(t) ==
    /\ threads[t].pc = "tail"
    /\ LET pid == threads[t].profile
           a == thread_attempt[t]
           p0 == profiles[pid]
           cl1 == IF a.cognitive_level \in DOMAIN p0.cognitive_levels
                  THEN p0.cognitive_levels
                  ELSE Put(p0.cognitive_levels, a.cognitive_level, ZeroStats)
           cl2 == [cl1 EXCEPT ![a.cognitive_level] = IncrStats(@, a.correct)]
           p1 == update_learning_pace([p0 EXCEPT !.cognitive_levels = cl2], a)
           pd == update_preferred_difficulty(
                     [p1 EXCEPT !.topic_performance = View(pid).topic_performance]
                 ).preferred_difficulty
           p2 == [p1 EXCEPT !.preferred_difficulty = pd]
           newProfiles == [profiles EXCEPT ![pid] = p2]
           view == [u \in DOMAIN registry |->
                       [newProfiles[registry[u]] EXCEPT
                           !.topic_performance =
                               [tp \in DOMAIN @ |-> topic_dicts[@[tp]]]]]
       IN  /\ profiles' = newProfiles
           /\ db' = save_data(view, db, "ok").db
    /\ Goto(t, "done")
    /\ UNCHANGED <<registry, topic_dicts, thread_attempt, clock>>

AllDone == \A t \in Threads : threads[t].pc = "done"

(***************************************************************************)
(* SpecRestart: the ledger written through to its file, and the process    *)
(* started again from the file                                             *)
(***************************************************************************)
RecordRestart ==
    /\ clock < MaxRestartAttempts
    /\ \E u \in Users, a \in PersistAttempts :
          \E o \in {"ok", "fail_during_write"} : RecordAttempt(u, a, o, TRUE)

\* AdaptiveLearningSystem.__init__ in a new process: self.students is what
\* _load_data rebuilds from the file.
Restart ==
    /\ ret = "returned"
    /\ students' = load_data(db, clock)
    /\ ret' = "loaded"
    /\ reply' = NoReply
    /\ UNCHANGED <<db, clock, calls, log>>

(***************************************************************************)
(* SpecStartup: a ledger constructed over the file an earlier process left *)
(***************************************************************************)
\* The record an earlier process stored for a user after one attempt.
StoredRecord(u) ==
    ProfileToJson(
        record_attempt(EmptyDict, AbsentFile, u,
                       Attempt("Math", "easy", "recall", TRUE, 30), 0,
                       "ok").students[u])

\* The files found at start-up: one that does not parse, and files that parse
\* with one record, both or none failing to rebuild.
StartupFiles ==
    {CorruptFile} \cup
    {[state |-> "valid",
      data |-> [u \in Users |-> IF u \in bad THEN MalformedRecord
                                ELSE StoredRecord(u)]] : bad \in SUBSET Users}

\* AdaptiveLearningSystem.__init__ with a file on disk.
InitStartup ==
    /\ db \in StartupFiles
    /\ clock = 0
    /\ students = load_data(db, clock)
    /\ ret = "loaded"
    /\ calls = [u \in Users |-> 0]
    /\ log = [u \in Users |-> <<>>]
    /\ reply = NoReply
    /\ InitRag
    /\ IdleConc
    /\ IdleChunker

RecordStartup ==
    /\ clock < MaxStartupAttempts
    /\ \E u \in Users, a \in PersistAttempts, o \in SaveOutcomes :
          RecordAttempt(u, a, o, TRUE)

(***************************************************************************)
(* SpecReads: two users, their attempts, and every read operation          *)
(***************************************************************************)
ReadAttempts ==
    [topic : Topics, difficulty : {"easy", "hard"},
     cognitive_level : {"recall"}, correct : BOOLEAN, time_taken : {30}]

RecordRead ==
    /\ clock < MaxReadAttempts
    /\ \E u \in Users, a \in ReadAttempts : RecordAttempt(u, a, "ok", TRUE)

AskStrength == \E u \in Users : GetStrengthAnalysis(u)

AskHistory == \E u \in Users, fp \in FloatSides : GetStudentHistory(u, fp)

(***************************************************************************)
(* The specifications                                                      *)
(***************************************************************************)
vars == <<ledgerVars, ragVars, concVars, chunkVars>>

\* Spec: the ledger, two users and two topics.
Init == InitLedger /\ InitRag /\ IdleConc /\ IdleChunker

Next == RecordAny /\ UNCHANGED <<ragVars, concVars, chunkVars>>

Spec == Init /\ [][Next]_vars

\* SpecPersist: the ledger and every outcome of a save.
NextPersist == RecordPersist /\ UNCHANGED <<ragVars, concVars, chunkVars>>

SpecPersist == Init /\ [][NextPersist]_vars

\* SpecTopic: one topic, with the recommendation read back.
NextTopic ==
    \/ RecordTopic /\ UNCHANGED <<ragVars, concVars, chunkVars>>
    \/ AskDifficulty /\ UNCHANGED <<ragVars, concVars, chunkVars>>

SpecTopic == Init /\ [][NextTopic]_vars

\* SpecSession: the session policy.
NextSession ==
    \/ RecordSession /\ UNCHANGED <<ragVars, concVars, chunkVars>>
    \/ AskAdaptive /\ UNCHANGED <<ragVars, concVars, chunkVars>>

SpecSession == Init /\ [][NextSession]_vars

\* SpecPace: recent_times around its limit.
NextPace ==
    \/ RecordWarm /\ UNCHANGED <<ragVars, concVars, chunkVars>>
    \/ RecordPace /\ UNCHANGED <<ragVars, concVars, chunkVars>>

SpecPace == Init /\ [][NextPace]_vars

\* SpecPref: preferred_difficulty around its thresholds.
NextPref ==
    \/ RecordDrill /\ UNCHANGED <<ragVars, concVars, chunkVars>>
    \/ RecordPref /\ UNCHANGED <<ragVars, concVars, chunkVars>>

SpecPref == Init /\ [][NextPref]_vars

\* SpecWeak: the weakest topics.
NextWeak ==
    \/ RecordWeakDrill /\ UNCHANGED <<ragVars, concVars, chunkVars>>
    \/ RecordWeak /\ UNCHANGED <<ragVars, concVars, chunkVars>>
    \/ AskWeak /\ UNCHANGED <<ragVars, concVars, chunkVars>>

SpecWeak == Init /\ [][NextWeak]_vars

\* SpecReads: record_attempt and every read operation.
NextReads ==
    \/ RecordRead /\ UNCHANGED <<ragVars, concVars, chunkVars>>
    \/ AskDifficulty /\ UNCHANGED <<ragVars, concVars, chunkVars>>
    \/ AskAdaptive /\ UNCHANGED <<ragVars, concVars, chunkVars>>
    \/ AskWeak /\ UNCHANGED <<ragVars, concVars, chunkVars>>
    \/ AskStrength /\ UNCHANGED <<ragVars, concVars, chunkVars>>
    \/ AskHistory /\ UNCHANGED <<ragVars, concVars, chunkVars>>

SpecReads == Init /\ [][NextReads]_vars

\* SpecRestart: write-through and start-up.
NextRestart ==
    \/ RecordRestart /\ UNCHANGED <<ragVars, concVars, chunkVars>>
    \/ Restart /\ UNCHANGED <<ragVars, concVars, chunkVars>>

SpecRestart == Init /\ [][NextRestart]_vars

\* SpecRag: one question after another.
NextRag ==
    \/ ProcessQuestion /\ UNCHANGED <<ledgerVars, concVars, chunkVars>>
    \/ EndRequest /\ UNCHANGED <<ledgerVars, concVars, chunkVars>>

SpecRag == Init /\ [][NextRag]_vars

\* SpecSearch: one search after another.
NextSearch ==
    \/ SearchRelevantContent /\ UNCHANGED <<ledgerVars, concVars, chunkVars>>
    \/ EndRequest /\ UNCHANGED <<ledgerVars, concVars, chunkVars>>

SpecSearch == Init /\ [][NextSearch]_vars

\* SpecLlm: one question after another, answered with LLMService.
NextLlm ==
    \/ ProcessQuestionWithService /\ UNCHANGED <<ledgerVars, concVars, chunkVars>>
    \/ EndRequest /\ UNCHANGED <<ledgerVars, concVars, chunkVars>>

SpecLlm == Init /\ [][NextLlm]_vars

\* SpecStartup: a ledger constructed over a file, and the attempts after.
NextStartup == RecordStartup /\ UNCHANGED <<ragVars, concVars, chunkVars>>

SpecStartup == InitStartup /\ [][NextStartup]_vars

\* SpecChunk: extract_and_chunk_text on one text after another.  The loop
\* runs in one thread that nothing holds back, so an iteration that can be
\* made is made.
NextChunk ==
    \/ ExtractAndChunkText /\ UNCHANGED <<ledgerVars, ragVars, concVars>>
    \/ ChunkStep /\ UNCHANGED <<ledgerVars, ragVars, concVars>>
    \/ EndChunking /\ UNCHANGED <<ledgerVars, ragVars, concVars>>

SpecChunk == Init /\ [][NextChunk]_vars /\ WF_vars(NextChunk)

\* SpecConc: concurrent record_attempt calls for one user.
ConcFrame ==
    UNCHANGED <<students, ret, calls, log, reply, ragVars, chunkVars>>

InitConcAll == InitLedger /\ InitRag /\ StartedConc /\ IdleChunker

NextConc ==
    \/ \E t \in Threads : CheckUser(t) /\ ConcFrame
    \/ \E t \in Threads : CreateProfile(t) /\ ConcFrame
    \/ \E t \in Threads : LoadProfile(t) /\ ConcFrame
    \/ \E t \in Threads : ReadTotal(t) /\ ConcFrame
    \/ \E t \in Threads : WriteTotal(t) /\ ConcFrame
    \/ \E t \in Threads : ReadCorrect(t) /\ ConcFrame
    \/ \E t \in Threads : WriteCorrect(t) /\ ConcFrame
    \/ \E t \in Threads : StampActivity(t) /\ ConcFrame
    \/ \E t \in Threads : CheckTopic(t) /\ ConcFrame
    \/ \E t \in Threads : InitTopic(t) /\ ConcFrame
    \/ \E t \in Threads : GetStats(t) /\ ConcFrame
    \/ \E t \in Threads : ReadTally(t) /\ ConcFrame
    \/ \E t \in Threads : WriteTally(t) /\ ConcFrame
    \/ \E t \in Threads : ReadTallyCorrect(t) /\ ConcFrame
    \/ \E t \in Threads : WriteTallyCorrect(t) /\ ConcFrame
    \/ \E t \in Threads : FinishAttempt(t) /\ ConcFrame

SpecConc == InitConcAll /\ [][NextConc]_vars

(***************************************************************************)
(* Properties                                                              *)
(***************************************************************************)
Known(u) == u \in DOMAIN students

\* C1 (Spec): for every user, total_questions is the number of
\* record_attempt calls made for that user (no profile when there was none),
\* and correct_answers <= total_questions.
C1_TotalIsCallCount ==
    \A u \in Users :
        IF Known(u)
        THEN /\ students[u].total_questions = calls[u]
             /\ students[u].correct_answers <= students[u].total_questions
        ELSE calls[u] = 0

C1_Witness ==
    \E u \in Users :
        /\ Known(u)
        /\ calls[u] >= 2
        /\ students[u].correct_answers > 0
        /\ students[u].correct_answers < students[u].total_questions

\* The request in flight has returned a result.
Answered == pq_ret = "returned"

AnswerIs(type, confidence, sources) ==
    /\ answer_result.answer_type = type
    /\ answer_result.confidence = confidence
    /\ answer_result.sources = sources

\* C2 as stated (SpecRag): whenever retrieval returned no chunks, the result
\* is general_knowledge with confidence 0.7, sources {"General Knowledge"}
\* and a chunk count of 0.
C2_ZeroChunksAlwaysGeneral ==
    (Answered /\ context_chunks = <<>>) =>
        /\ AnswerIs("general_knowledge", 70, {"General Knowledge"})
        /\ answer_result.context_chunks = 0

\* C2 amended (SpecRag): the same, for a text generator that does not raise.
C2_ZeroChunksGeneral ==
    (Answered /\ context_chunks = <<>> /\ request.llm = "text") =>
        /\ AnswerIs("general_knowledge", 70, {"General Knowledge"})
        /\ answer_result.context_chunks = 0

C2_Witness ==
    /\ Answered
    /\ request.retrieval = "ok"
    /\ request.ranking = <<>>
    /\ context_chunks = <<>>
    /\ request.llm = "text"
    /\ answer_result.answer_type = "general_knowledge"

RECURSIVE DistanceTotal(_)
DistanceTotal(cs) ==
    IF cs = <<>> THEN 0 ELSE cs[1].distance + DistanceTotal(Tail(cs))

\* The confidence the code computed, max(0.1, 1.0 - mean distance), is >= 0.3:
\* the mean distance is under 0.70, or it is 0.70 and the float computed for
\* the confidence is not under 0.3.
ConfidentEnough(cs) ==
    \/ DistanceTotal(cs) < 70 * Len(cs)
    \/ DistanceTotal(cs) = 70 * Len(cs) /\ request.fp # "below"

DocumentsOf(cs) ==
    {IF "pdf_filename" \in DOMAIN cs[i].metadata
     THEN cs[i].metadata.pdf_filename ELSE "Unknown" : i \in 1..Len(cs)}

\* C3 (SpecRag): chunks retrieved, confidence >= 0.3 (0.3 included) and a
\* generator that does not fail give curriculum_based, a chunk count equal
\* to the number of chunks, and the set of the chunks' documents as sources.
C3_CurriculumBranch ==
    (/\ Answered
     /\ context_chunks # <<>>
     /\ ConfidentEnough(context_chunks)
     /\ request.llm = "text") =>
        /\ answer_result.answer_type = "curriculum_based"
        /\ answer_result.context_chunks = Len(context_chunks)
        /\ answer_result.sources = DocumentsOf(context_chunks)

\* Two chunks of one document at mean distance 0.70, the confidence computed
\* as 0.3 exactly.
C3_Witness ==
    /\ Answered
    /\ request.fp = "exact"
    /\ Len(context_chunks) = 2
    /\ DistanceTotal(context_chunks) = 140
    /\ context_chunks[1].distance # context_chunks[2].distance
    /\ context_chunks[1].metadata = context_chunks[2].metadata
    /\ answer_result.answer_type = "curriculum_based"
    /\ Cardinality(answer_result.sources) = 1

\* C4 as stated (SpecRag): chunks retrieved with confidence below 0.3 always
\* give general_knowledge with confidence 0.7.
C4_LowConfidenceAlwaysGeneral ==
    (Answered /\ context_chunks # <<>> /\ ~ConfidentEnough(context_chunks)) =>
        /\ answer_result.answer_type = "general_knowledge"
        /\ answer_result.confidence = 70

\* C4 amended (SpecRag): the same, for a text generator that does not raise.
C4_LowConfidenceGeneral ==
    (/\ Answered
     /\ context_chunks # <<>>
     /\ ~ConfidentEnough(context_chunks)
     /\ request.llm = "text") =>
        /\ answer_result.answer_type = "general_knowledge"
        /\ answer_result.confidence = 70

\* Mean distance 0.85: the computed confidence 0.15 is above the floor.
C4_Witness ==
    /\ Answered
    /\ Len(context_chunks) = 2
    /\ DistanceTotal(context_chunks) = 170
    /\ request.llm = "text"
    /\ answer_result.answer_type = "general_knowledge"
    /\ answer_result.confidence = 70

\* C5 (SpecRag): when the text generator raises, in whichever branch, the
\* call returns to its caller with answer_type "error", confidence 0.0 and
\* no sources.
C5_GeneratorFailure ==
    /\ pq_ret # "raised"
    /\ (Answered /\ request.llm = "raises") => AnswerIs("error", 0, {})

\* The generator raised on the prompt of the degraded-context branch.
C5_Witness ==
    /\ Answered
    /\ request.llm = "raises"
    /\ llm_prompt.kind = "general_with_hints"
    /\ answer_result.answer_type = "error"

\* correct/total >= num/den with at least 3 attempts, 0 otherwise.
Trusted(stats, num, den) ==
    stats.total >= 3 /\ stats.correct * den >= num * stats.total

\* C6 (SpecTopic): for a known user and a topic of the profile the
\* recommendation is "hard" if the hard bucket has >= 3 attempts and accuracy
\* >= 0.70, else "medium" if the medium bucket has >= 3 attempts and accuracy
\* >= 0.60, else "easy"; 2 of 2 in hard never gives "hard", and 3 of 3 easy
\* with 3 of 3 medium gives "medium".
C6_TopicRecommendation ==
    (/\ reply.op = "get_recommended_difficulty"
     /\ Known(reply.user_id)
     /\ reply.topic \in DOMAIN students[reply.user_id].topic_performance) =>
        LET st == students[reply.user_id].topic_performance[reply.topic]
        IN  /\ reply.value =
                   IF Trusted(st["hard"], 7, 10) THEN "hard"
                   ELSE IF Trusted(st["medium"], 6, 10) THEN "medium"
                   ELSE "easy"
            /\ st["hard"] = [correct |-> 2, total |-> 2] =>
                   reply.value # "hard"
            /\ (/\ st["easy"] = [correct |-> 3, total |-> 3]
                /\ st["medium"] = [correct |-> 3, total |-> 3]
                /\ st["hard"].total = 0) => reply.value = "medium"

C6_Witness ==
    /\ reply.op = "get_recommended_difficulty"
    /\ reply.user_id = "u1"
    /\ reply.topic = "Math"
    /\ Known("u1")
    /\ "Math" \in DOMAIN students["u1"].topic_performance
    /\ LET st == students["u1"].topic_performance["Math"]
       IN  /\ st["easy"] = [correct |-> 3, total |-> 3]
           /\ st["medium"] = [correct |-> 3, total |-> 3]
           /\ st["hard"].total = 0
    /\ reply.value = "medium"

\* The user's most recent (at most 10) recorded attempts.
RecentLogged(u) ==
    LET n == Len(log[u])
    IN  IF n <= 10 THEN log[u] ELSE SubSeq(log[u], n - 9, n)

\* C7 as stated (SpecSession): generate_adaptive_questions returns "hard"
\* when the accuracy over the most recent (at most 10) recorded attempts is
\* above 0.80 and the long-term recommendation is not "hard", "easy" when it
\* is below 0.40 and the recommendation is not "easy", and the long-term
\* recommendation otherwise.
C7_SessionPolicy ==
    reply.op = "generate_adaptive_questions" =>
        LET u == reply.user_id
            base == get_recommended_difficulty(students, u, reply.topic)
            recent == RecentLogged(u)
            n == Len(recent)
            c == Cardinality({i \in 1..n : recent[i].correct})
        IN  reply.value.recommended_difficulty =
                IF n > 0 /\ 10 * c > 8 * n /\ base # "hard" THEN "hard"
                ELSE IF n > 0 /\ 10 * c < 4 * n /\ base # "easy" THEN "easy"
                ELSE base

\* C8 (SpecPace): recent_times never holds more than 20 entries and is the
\* time_taken of the last min(n, 20) of the user's n attempts, in order.
C8_RecentTimesFifo ==
    \A u \in Users :
        Known(u) =>
            LET rt == students[u].recent_times
                n == Len(log[u])
                m == IF n < 20 THEN n ELSE 20
            IN  /\ Len(rt) <= 20
                /\ Len(rt) = m
                /\ \A i \in 1..m : rt[i] = log[u][n - m + i].time_taken

\* After the 22nd attempt the first two times are gone.
C8_Witness ==
    /\ Known("u1")
    /\ Len(log["u1"]) = 22
    /\ Len(students["u1"].recent_times) = 20
    /\ students["u1"].recent_times[1] = log["u1"][3].time_taken
    /\ students["u1"].recent_times[1] # log["u1"][1].time_taken

\* The file does not hold what memory holds: the last save failed.
SaveFailed == db # save_data(students, db, "ok").db

Logged(u, t, d) ==
    {i \in 1..Len(log[u]) : log[u][i].topic = t /\ log[u][i].difficulty = d}

LoggedLevel(u, l) == {i \in 1..Len(log[u]) : log[u][i].cognitive_level = l}

CorrectOf(u, is) == {i \in is : log[u][i].correct}

\* The profile of u holds every attempt recorded for u.
FullyUpdated(u) ==
    /\ Known(u)
    /\ LET p == students[u]
           all == 1..Len(log[u])
       IN  /\ p.total_questions = Len(log[u])
           /\ p.correct_answers = Cardinality(CorrectOf(u, all))
           /\ DOMAIN p.topic_performance = {log[u][i].topic : i \in all}
           /\ \A t \in DOMAIN p.topic_performance, d \in Difficulties :
                 p.topic_performance[t][d] =
                     [correct |-> Cardinality(CorrectOf(u, Logged(u, t, d))),
                      total |-> Cardinality(Logged(u, t, d))]
           /\ DOMAIN p.cognitive_levels =
                  {log[u][i].cognitive_level : i \in all}
           /\ \A l \in DOMAIN p.cognitive_levels :
                 p.cognitive_levels[l] =
                     [correct |-> Cardinality(CorrectOf(u, LoggedLevel(u, l))),
                      total |-> Cardinality(LoggedLevel(u, l))]
           /\ p.recent_times = [i \in all |-> log[u][i].time_taken]

\* C9 (SpecPersist): record_attempt returns normally, and when the save
\* failed the profiles in memory hold every attempt recorded, the last one
\* included.
C9_SaveFailureSwallowed ==
    /\ ret = "returned"
    /\ SaveFailed => \A u \in Users : Len(log[u]) > 0 => FullyUpdated(u)

\* A save failed before the file was opened, after a save that succeeded.
C9_Witness ==
    /\ SaveFailed
    /\ db.state = "valid"
    /\ Len(log["u1"]) >= 2
    /\ FullyUpdated("u1")

ThreadsIn(t, d) ==
    {th \in Threads :
        thread_attempt[th].topic = t /\ thread_attempt[th].difficulty = d}

\* C10 as stated (SpecConc): once every concurrent call for the user has
\* completed, total_questions is the number of calls and every
\* topic/difficulty tally is the number of attempts recorded in it.
C10_NoLostUpdate ==
    AllDone =>
        /\ ConcUser \in DOMAIN registry
        /\ LET p == StudentsView[ConcUser]
           IN  /\ p.total_questions = Cardinality(Threads)
               /\ \A t \in {thread_attempt[th].topic : th \in Threads} :
                     /\ t \in DOMAIN p.topic_performance
                     /\ \A d \in Difficulties :
                           p.topic_performance[t][d].total =
                               Cardinality(ThreadsIn(t, d))


RECURSIVE SumOver(_, _)
SumOver(f, keys) ==
    IF keys = {} THEN 0
    ELSE LET k == CHOOSE x \in keys : TRUE
         IN  f[k] + SumOver(f, keys \ {k})

\* The attempts counted in the buckets of all topics of profile p.
BucketTotal(p) ==
    LET tp == p.topic_performance
        perTopic == [t \in DOMAIN tp |->
                        SumOver([d \in DOMAIN tp[t] |-> tp[t][d].total],
                                DOMAIN tp[t])]
    IN  SumOver(perTopic, DOMAIN tp)

C12_ColdStartDefaults ==
    reply.op = "get_recommended_difficulty" =>
        IF ~Known(reply.user_id) THEN reply.value = "medium"
        ELSE (\/ reply.topic = NoTopic
              \/ reply.topic \notin
                     DOMAIN students[reply.user_id].topic_performance) =>
                 reply.value = students[reply.user_id].preferred_difficulty

\* A known user asks about a topic never attempted; the global preference is
\* not the cold-start default.
C12_Witness ==
    /\ reply.op = "get_recommended_difficulty"
    /\ reply.user_id = "u1"
    /\ Known("u1")
    /\ reply.topic = "Science"
    /\ "Science" \notin DOMAIN students["u1"].topic_performance
    /\ students["u1"].preferred_difficulty = "hard"
    /\ reply.value = "hard"


\* The first n logged attempts of u in topic t and difficulty d.
LoggedUpTo(u, t, d, n) == {i \in Logged(u, t, d) : i <= n}

RECURSIVE ProductOver(_, _)
ProductOver(f, keys) ==
    IF keys = {} THEN 1
    ELSE LET k == CHOOSE x \in keys : TRUE
         IN  f[k] * ProductOver(f, keys \ {k})

\* Over the first n logged attempts of u: the mean, over the topics with at
\* least one attempt in difficulty d, of correct/total is >= num/den (the
\* mean is 0 when there is no such topic).
LoggedMeanAtLeast(u, d, n, num, den) ==
    LET ts == {t \in Topics : LoggedUpTo(u, t, d, n) # {}}
        tot == [t \in ts |-> Cardinality(LoggedUpTo(u, t, d, n))]
        cor == [t \in ts |-> Cardinality(CorrectOf(u, LoggedUpTo(u, t, d, n)))]
        scaled == [t \in ts |-> cor[t] * ProductOver(tot, ts \ {t})]
    IN  /\ ts # {}
        /\ SumOver(scaled, ts) * den >=
               num * Cardinality(ts) * ProductOver(tot, ts)

\* The global cascade over the first n logged attempts of u.
CascadeOfLog(u, n) ==
    IF LoggedMeanAtLeast(u, "hard", n, 7, 10) THEN "hard"
    ELSE IF LoggedMeanAtLeast(u, "medium", n, 6, 10) THEN "medium"
    ELSE "easy"

\* C13 (SpecPref): after every record_attempt the profile's
\* preferred_difficulty is the global cascade over the attempts recorded:
\* "hard" if the mean hard accuracy over the topics attempted in hard is
\* >= 0.70, else "medium" if the mean medium accuracy is >= 0.60, else
\* "easy".
C13_PreferredIsCascade ==
    \A u \in Users :
        Len(log[u]) > 0 =>
            /\ Known(u)
            /\ students[u].preferred_difficulty =
                   CascadeOfLog(u, Len(log[u]))

\* The value moved up and then down: "easy", then "hard" on a hard accuracy
\* of exactly 0.70, then "easy" again.
C13_Witness ==
    LET n == Len(log["u1"])
    IN  /\ n >= 3
        /\ CascadeOfLog("u1", n - 2) = "easy"
        /\ CascadeOfLog("u1", n - 1) = "hard"
        /\ 10 * Cardinality(CorrectOf("u1",
                                LoggedUpTo("u1", "Math", "hard", n - 1))) =
               7 * Cardinality(LoggedUpTo("u1", "Math", "hard", n - 1))
        /\ LoggedUpTo("u1", "Science", "hard", n) = {}
        /\ CascadeOfLog("u1", n) = "easy"
        /\ students["u1"].preferred_difficulty = "easy"


AnswerResultFields ==
    {"answer", "confidence", "sources", "context_chunks", "answer_type"}

\* C14 as stated (SpecRag): every result of process_question, whatever its
\* answer_type, carries answer, confidence, sources, the context chunk count
\* and answer_type.
C14_AllFieldsPresent ==
    Answered => AnswerResultFields \subseteq DOMAIN answer_result

\* C15 as stated (SpecRag): an answer of type "error" is never added to the
\* question history.
C15_ErrorNotPersisted ==
    (Answered /\ answer_result.answer_type = "error") =>
        questions_added = NoAdd

\* The result process_question gives for the request in flight when the
\* store works.
ResultWithWorkingStore ==
    process_question(request.ranking, request.retrieval, request.llm,
                     request.user_id, "ok", request.fp).answer_result

\* C16 (SpecRag): when storing the question-answer pair fails, the call
\* returns, without raising, the result it returns when the store works.
C16_StoreFailureIgnored ==
    /\ pq_ret # "raised"
    /\ (Answered /\ request.user_id # NoUser /\ request.store = "raises") =>
           /\ answer_result = ResultWithWorkingStore
           /\ questions_added = NoAdd

\* The store failed under a curriculum answer, which came back whole.
C16_Witness ==
    /\ Answered
    /\ request.user_id = "u1"
    /\ request.store = "raises"
    /\ request.llm = "text"
    /\ answer_result.answer_type = "curriculum_based"
    /\ answer_result.context_chunks = 2
    /\ questions_added = NoAdd


\* The logged attempts of u in topic t.
LoggedIn(u, t) == {i \in 1..Len(log[u]) : log[u][i].topic = t}

\* The topics in which u has at least 5 logged attempts.
Qualifying(u) == {t \in Topics : Cardinality(LoggedIn(u, t)) >= 5}

\* The accuracy of a pair of the result is not above the accuracy of u in t.
NotAbove(u, pair, t) ==
    pair[2].num * Cardinality(LoggedIn(u, t)) <=
        Cardinality(CorrectOf(u, LoggedIn(u, t))) * pair[2].den

\* C17 (SpecWeak): get_weak_topics(user, limit) returns at most `limit`
\* (topic, accuracy) pairs in ascending accuracy order; they are distinct
\* topics with at least 5 attempts over the three difficulties, each with its
\* accuracy, and no qualifying topic left out has a lower accuracy; a topic
\* with fewer than 5 attempts never appears.
C17_WeakTopics ==
    reply.op = "get_weak_topics" =>
        LET u == reply.user_id
            r == reply.value
            n == Len(r)
            q == Cardinality(Qualifying(u))
        IN  /\ n <= reply.limit
            /\ n = IF q < reply.limit THEN q ELSE reply.limit
            /\ \A i \in 1..n :
                  /\ r[i][1] \in Qualifying(u)
                  /\ NotAbove(u, r[i], r[i][1])
                  /\ r[i][2].num * Cardinality(LoggedIn(u, r[i][1])) =
                         Cardinality(CorrectOf(u, LoggedIn(u, r[i][1])))
                             * r[i][2].den
            /\ \A i, j \in 1..n :
                  i < j => /\ r[i][1] # r[j][1]
                           /\ ~ScoreLess(r[j][2], r[i][2])
            /\ \A t \in Qualifying(u) \ {r[i][1] : i \in 1..n} :
                  \A i \in 1..n : NotAbove(u, r[i], t)

\* Both topics qualify, one is asked for, and the weaker one comes back,
\* though the profile holds it second; Math had stayed out with 4 attempts.
C17_Witness ==
    /\ reply.op = "get_weak_topics"
    /\ reply.user_id = "u1"
    /\ reply.limit = 1
    /\ Qualifying("u1") = {"Math", "Science"}
    /\ Cardinality(LoggedIn("u1", "Math")) = 5
    /\ reply.value = <<<<"Science", Score(3, 6)>>>>


\* C18 (SpecTopic): a second get_recommended_difficulty(user, topic), made
\* with no record_attempt since the first, returns what the first returned
\* (a record_attempt clears the reply).
C18_ReadIdempotent ==
    reply.op = "get_recommended_difficulty" =>
        get_recommended_difficulty(students, reply.user_id, reply.topic) =
            reply.value

\* A topic recommendation that is not a default has been read.
C18_Witness ==
    /\ reply.op = "get_recommended_difficulty"
    /\ reply.user_id = "u1"
    /\ reply.topic = "Math"
    /\ Known("u1")
    /\ students["u1"].topic_performance["Math"]["hard"].total >= 3
    /\ students["u1"].preferred_difficulty = "hard"
    /\ reply.value = "hard"


\* C19 (SpecReads): every step that is not a record_attempt (the clock does
\* not move) leaves every profile and the file as they are and adds none,
\* and no step removes a profile.
C19_ReadsChangeNothing ==
    [][/\ DOMAIN students \subseteq DOMAIN students'
       /\ clock' = clock => (students' = students /\ db' = db)
       /\ reply'.op # "none" => (students' = students /\ db' = db)]_vars

\* A user without a profile was asked about, beside a user with two
\* attempts, and has no profile still.
C19_Witness ==
    /\ reply.op = "get_strength_analysis"
    /\ reply.user_id = "u2"
    /\ ~Known("u2")
    /\ Known("u1")
    /\ students["u1"].total_questions = 2
    /\ reply.value.total_questions = 0


\* Profiles p and q agree in everything record_attempt records.
SameRecorded(p, q) ==
    /\ p.total_questions = q.total_questions
    /\ p.correct_answers = q.correct_answers
    /\ p.topic_performance = q.topic_performance
    /\ p.cognitive_levels = q.cognitive_levels
    /\ p.preferred_difficulty = q.preferred_difficulty
    /\ p.learning_pace = q.learning_pace
    /\ HasAttr(p, "recent_times") /\ HasAttr(q, "recent_times")
    /\ p.recent_times = q.recent_times

\* C20 (SpecRestart): when the ledger is loaded from the file right after a
\* record_attempt whose save worked (the file parses), it holds the users
\* the memory held, each with a profile equal to the one in memory in
\* total_questions, correct_answers, the topic and cognitive-level tallies,
\* preferred_difficulty, learning_pace and recent_times.
C20_WriteThroughRoundTrip ==
    [][(ret = "returned" /\ ret' = "loaded" /\ db.state = "valid") =>
           /\ DOMAIN students' = DOMAIN students
           /\ \A u \in DOMAIN students :
                 SameRecorded(students'[u], students[u])]_vars

\* The ledger has been loaded from a file that holds two users.
C20_Witness ==
    /\ ret = "loaded"
    /\ db.state = "valid"
    /\ DOMAIN students = {"u1", "u2"}
    /\ students["u1"].total_questions = 2
    /\ students["u1"].recent_times = <<30, 30>>
    /\ students["u1"].topic_performance["Math"]["hard"] =
           [correct |-> 1, total |-> 2]
    /\ students["u2"].total_questions = 1


\* The collection the claim names for a subject: the subject's own when the
\* subject, whatever its case, is a known one, the unified one otherwise.
CollectionFor(subject) ==
    IF subject \in {"science", "Science"} THEN SubjectCollection("science")
    ELSE IF subject = "mathematics" THEN SubjectCollection("mathematics")
    ELSE UnifiedCollection

\* C21 (SpecSearch): search_relevant_content(query, k, subject) does not
\* raise and returns at most k chunks in ascending distance order; they are
\* the nearest of the subject's collection when the subject is a known one
\* and of the unified collection otherwise (none when retrieval fails), and
\* none when that collection is empty.
C21_SearchContract ==
    /\ pq_ret # "raised"
    /\ pq_ret = "searched" =>
          LET selected == request.indexes[CollectionFor(request.subject)]
              n == Len(context_chunks)
          IN  /\ n <= request.top_k
              /\ \A i \in 1..(n - 1) :
                    context_chunks[i].distance <= context_chunks[i + 1].distance
              /\ \A i \in 1..n : context_chunks[i] = selected[i]
              /\ request.retrieval = "ok" =>
                    n = IF Len(selected) < request.top_k THEN Len(selected)
                        ELSE request.top_k
              /\ selected = <<>> => context_chunks = <<>>

\* A capitalised known subject: the nearest chunk of its collection came
\* back, not one of the unified collection.
C21_Witness ==
    /\ pq_ret = "searched"
    /\ request.subject = "Science"
    /\ request.top_k = 1
    /\ Len(request.indexes[SubjectCollection("science")]) = 2
    /\ Len(request.indexes[UnifiedCollection]) = 2
    /\ Len(context_chunks) = 1
    /\ context_chunks[1].metadata.pdf_filename = "b.pdf"


\* C22 (SpecReads): get_strength_analysis(user) reports, for each cognitive
\* level at which the user has recorded attempts, the number of attempts
\* recorded at that level.
C22_LevelCountsReported ==
    (reply.op = "get_strength_analysis" /\ Known(reply.user_id)) =>
        \A l \in DOMAIN students[reply.user_id].cognitive_levels :
            /\ l \in DOMAIN reply.value.cognitive_levels
            /\ reply.value.cognitive_levels[l] =
                   students[reply.user_id].cognitive_levels[l].total


\* What the request of the current state returns when no chunk at all is
\* retrieved for it.
ZeroChunkMiss ==
    process_question(<<>>, "ok", request.llm, request.user_id, request.store,
                     request.fp).answer_result

\* The current result is a general_knowledge one given for retrieved chunks
\* of low confidence.
LowConfidenceHit ==
    /\ Answered
    /\ context_chunks # <<>>
    /\ answer_result.answer_type = "general_knowledge"

\* C23 as stated (SpecRag): a general_knowledge result from a low-confidence
\* hit and the one from a zero-chunk miss have the same answer_type and
\* confidence and differ in both sources and the context chunk count.
C23_HitAndMissDifferInSources ==
    LowConfidenceHit =>
        /\ answer_result.answer_type = ZeroChunkMiss.answer_type
        /\ answer_result.confidence = ZeroChunkMiss.confidence
        /\ answer_result.sources # ZeroChunkMiss.sources
        /\ answer_result.context_chunks # ZeroChunkMiss.context_chunks

\* C23 amended (SpecRag): they have the same answer_type, confidence and
\* sources, and differ in the context chunk count: the number of retrieved
\* chunks for the hit, 0 for the miss.
C23_HitAndMissDifferInCount ==
    LowConfidenceHit =>
        /\ answer_result.answer_type = ZeroChunkMiss.answer_type
        /\ answer_result.confidence = ZeroChunkMiss.confidence
        /\ answer_result.sources = ZeroChunkMiss.sources
        /\ answer_result.context_chunks = Len(context_chunks)
        /\ ZeroChunkMiss.context_chunks = 0

\* Two chunks of a document were retrieved, too far from the query: the
\* result names "General Knowledge" as its source and counts two chunks.
C23_Witness ==
    /\ LowConfidenceHit
    /\ Len(context_chunks) = 2
    /\ DocumentsOf(context_chunks) = {"a.pdf"}
    /\ answer_result.sources = {"General Knowledge"}
    /\ answer_result.context_chunks = 2
    /\ ZeroChunkMiss.answer_type = "general_knowledge"


\* C24 (SpecRag): the answer_type of a result is one of curriculum_based,
\* general_knowledge and error, and it determines the confidence: between 0.3
\* and 1.0 for curriculum_based, 0.7 for general_knowledge, 0.0 for error; so
\* the confidence lies in [0, 1].
C24_TypeDeterminesConfidence ==
    Answered =>
        /\ answer_result.answer_type \in
               {"curriculum_based", "general_knowledge", "error"}
        /\ answer_result.answer_type = "curriculum_based" =>
               /\ answer_result.confidence >= MinConfidence
               /\ answer_result.confidence <= 100
        /\ answer_result.answer_type = "general_knowledge" =>
               answer_result.confidence = 70
        /\ answer_result.answer_type = "error" =>
               answer_result.confidence = 0
        /\ answer_result.confidence \in 0..100

\* Both ends of the curriculum range: chunks at distance 0 give 1.0 ...
C24_Witness ==
    /\ Answered
    /\ Len(context_chunks) = 2
    /\ DistanceTotal(context_chunks) = 0
    /\ answer_result.answer_type = "curriculum_based"
    /\ answer_result.confidence = 100

\* ... and a mean distance of exactly 0.70, computed not below 0.3, gives 0.3.
C24_WitnessAtThreshold ==
    /\ Answered
    /\ Len(context_chunks) = 2
    /\ DistanceTotal(context_chunks) = 140
    /\ answer_result.answer_type = "curriculum_based"
    /\ answer_result.confidence = MinConfidence


\* The generation of the current request failed inside LLMService: there is
\* no model, the service is offline, or the model's call raised.
GenerationFailed ==
    \/ ~request.service.model
    \/ ~request.service.is_online
    \/ request.call = "raises"

\* C25 (SpecLlm): LLMService.generate_answer never raises; with it,
\* process_question never returns an error result, and when the generation
\* failed the result is a curriculum_based or general_knowledge one whose
\* answer is the apology text.
C25_ApologyNotError ==
    /\ pq_ret # "raised"
    /\ Answered =>
          /\ request.llm # "raises"
          /\ answer_result.answer_type \in
                 {"curriculum_based", "general_knowledge"}
          /\ GenerationFailed =>
                 /\ answer_result.answer \in {ApologyFailed, ApologyOffline}
                 /\ answer_result.answer = ApologyFailed <=>
                        request.service.model /\ request.service.is_online
          /\ ~GenerationFailed => answer_result.answer = request.call

\* The model's call raised for a question with confident chunks: the apology
\* is returned as a curriculum_based answer.
C25_Witness ==
    /\ Answered
    /\ request.service.model
    /\ request.call = "raises"
    /\ answer_result.answer_type = "curriculum_based"
    /\ answer_result.answer = ApologyFailed
    /\ answer_result.confidence = 65


\* The retrieval of the current request failed: the embedding model is not
\* loaded, no embedding came back for the question, or the index query
\* raised.
RetrievalFailed == request.retrieval # "ok"

\* C26 as stated (SpecRag): any retrieval failure gives an empty chunk list,
\* and process_question returns the general_knowledge result with confidence
\* 0.7 rather than an error.
C26_RetrievalFailureAlwaysGeneral ==
    (Answered /\ RetrievalFailed) =>
        /\ context_chunks = <<>>
        /\ answer_result.answer_type = "general_knowledge"
        /\ answer_result.confidence = 70

\* C26 amended (SpecRag): the same, for a text generator that does not raise.
C26_RetrievalFailureGeneral ==
    (Answered /\ RetrievalFailed /\ request.llm = "text") =>
        /\ context_chunks = <<>>
        /\ answer_result.answer_type = "general_knowledge"
        /\ answer_result.confidence = 70
        /\ answer_result.context_chunks = 0

\* No embedding came back for a question whose collection holds two chunks
\* at distance 0.
C26_Witness ==
    /\ Answered
    /\ request.retrieval = "no_embedding"
    /\ Len(request.ranking) = 2
    /\ DistanceTotal(request.ranking) = 0
    /\ request.llm = "text"
    /\ context_chunks = <<>>
    /\ answer_result.answer_type = "general_knowledge"


\* C27 (Spec): record_attempt(u, a) changes only the profile of u: every
\* other user's profile is after the call what it was before, and none is
\* added or removed for another user.
C27_OnlyOwnProfile ==
    [][\A u \in Users :
          calls'[u] = calls[u] =>
              /\ Known(u) <=> u \in DOMAIN students'
              /\ Known(u) => students'[u] = students[u]]_vars

\* Both users have profiles and one of them two attempts: an attempt was
\* recorded for one user while the other had a profile.
C27_Witness ==
    /\ Known("u1")
    /\ Known("u2")
    /\ calls["u1"] = 2
    /\ calls["u2"] = 1
    /\ students["u1"].total_questions = 2
    /\ students["u2"].total_questions = 1
    /\ students["u2"].last_activity < clock


\* C28 (SpecPref): after the first record_attempt of a user who had no
\* profile, preferred_difficulty is "hard" exactly when the attempt was a
\* correct hard one, "medium" exactly when it was a correct medium one, and
\* "easy" otherwise.
C28_FirstAttemptPreference ==
    \A u \in Users :
        Len(log[u]) = 1 =>
            LET a == log[u][1]
            IN  /\ Known(u)
                /\ students[u].preferred_difficulty =
                       IF a.correct /\ a.difficulty = "hard" THEN "hard"
                       ELSE IF a.correct /\ a.difficulty = "medium"
                       THEN "medium"
                       ELSE "easy"

\* A wrong hard answer as the first attempt: the preference of the new
\* profile is "easy".
C28_Witness ==
    /\ Len(log["u1"]) = 1
    /\ log["u1"][1].difficulty = "hard"
    /\ ~log["u1"][1].correct
    /\ students["u1"].total_questions = 1
    /\ students["u1"].preferred_difficulty = "easy"

\* A correct medium answer as the first attempt: "medium".
C28_WitnessMedium ==
    /\ Len(log["u1"]) = 1
    /\ log["u1"][1].difficulty = "medium"
    /\ log["u1"][1].correct
    /\ students["u1"].preferred_difficulty = "medium"


\* The users whose record in the file rebuilds.
Rebuildable(file) ==
    IF file.state # "valid" THEN {}
    ELSE {u \in DOMAIN file.data : file.data[u] # MalformedRecord}

\* The ledger starts with the profiles that rebuild and no other.
StartsWithoutFailed ==
    /\ DOMAIN students = Rebuildable(db)
    /\ \A u \in DOMAIN students : students[u].total_questions = 1

\* What _save_data writes for the map m.
DumpOf(m) == [state |-> "valid", data |-> [u \in DOMAIN m |-> ProfileToJson(m[u])]]

\* C29 as stated (SpecStartup): the ledger starts without the profiles that
\* failed to load, and every record_attempt after that rewrites the whole
\* file from the in-memory map, so that no failed record is left in it.
C29_NextAttemptAlwaysRewrites ==
    /\ StartsWithoutFailed
    /\ [][/\ db' = DumpOf(students')
          /\ \A u \in DOMAIN db'.data : db'.data[u] # MalformedRecord]_vars

\* C29 amended (SpecStartup): the same, for a record_attempt whose save
\* succeeds (the file is changed and parses).
C29_NextSavedAttemptRewrites ==
    /\ StartsWithoutFailed
    /\ [][(db' # db /\ db'.state = "valid") =>
              /\ db' = DumpOf(students')
              /\ \A u \in DOMAIN db'.data : db'.data[u] # MalformedRecord]_vars

\* The file held u1's record and a record for u2 that does not rebuild; after
\* one attempt of u1 it holds u1's profile of two attempts and nothing of u2.
C29_Witness ==
    /\ clock = 1
    /\ db.state = "valid"
    /\ DOMAIN db.data = {"u1"}
    /\ DOMAIN students = {"u1"}
    /\ students["u1"].total_questions = 2
    /\ db.data["u1"].total_questions = 2


\* Every character of the normalised text lies in the range of a chunk.
EveryCharacterInAChunk ==
    \A i \in 0..(text_len - 1) :
        \E k \in 1..Len(text_chunks) :
            text_chunks[k].first <= i /\ i < text_chunks[k].last

\* C30 (SpecChunk): extract_and_chunk_text with chunk_size=500 and overlap=50
\* terminates for every input: each iteration of its loop leaves start
\* strictly greater than it found it, the loop is left, and then every
\* character of the normalised text lies in at least one returned chunk.
C30_ChunkingTerminatesAndCovers ==
    /\ [][chunk_pc = "loop" => (chunk_pc' # "idle" /\ start' > start)]_vars
    /\ (chunk_pc = "loop") ~> (chunk_pc = "returned")
    /\ [](chunk_pc = "returned" => EveryCharacterInAChunk)

\* A text of four chunks, the second begun after a sentence end found at the
\* lowest position searched and stripped of a leading space.
C30_Witness ==
    /\ chunk_pc = "returned"
    /\ text_len = MaxTextLen
    /\ Len(text_chunks) = 4
    /\ text_chunks[1] = [first |-> 0, last |-> 402]
    /\ text_chunks[2].first = 353
    /\ text_chunks[4].last = MaxTextLen

====
